---------------------------- MODULE Spec2Model ----------------------------
(***************************************************************************)
(* A model of the rust-ccg engine core: the zone manager, the game state   *)
(* and effect resolver, the priority stack, the trigger registry and the   *)
(* MCTS search loop.  Every subsystem is a record-valued variable that     *)
(* mirrors the Rust struct; every method is an operator from the old       *)
(* record (and the arguments) to the new record and the return value.      *)
(* Each subsystem has its own specification (SpecStack, SpecState, ...).   *)
(***************************************************************************)
EXTENDS Integers, Sequences, FiniteSets, TLC

VARIABLES
    stack,      \* PriorityStack                       (stack/priority.rs)
    state,      \* GameState                           (core/state.rs)
    zm,         \* a stand-alone ZoneManager           (zones/manager.rs)
    registry,   \* TriggerRegistry                     (triggers/registry.rs)
    search,     \* MCTSSearch: tree, stats, position of the search loop
    last,       \* history: the last call, its arguments, result and pre-state
    passers,    \* history: players whose passes were accepted since the last
                \* push, trigger flush, resolution, set_priority or clear
    snapshots,  \* the GameStates taken with clone_state, oldest first
    buffer,     \* ExperienceBuffer                    (training/trajectory.rs)
    worker      \* SelfPlayWorker and the locals of play_game (training/self_play.rs)

vars == <<stack, state, zm, registry, search, last, passers, snapshots, buffer, worker>>

(***************************************************************************)
(* Bounds of the model.                                                    *)
(***************************************************************************)
MaxPlayers == 4         \* player counts 1..MaxPlayers in the stack model
MaxStackIds == 2        \* stack entries pushed in one behaviour
ExtraPasses == 0..1      \* by how much a pass may take the count beyond player_count
MaxTriggerId == 2       \* trigger ids carried by triggered effects, 1..MaxTriggerId

(***************************************************************************)
(* Sentinels for Rust's Option::None.                                      *)
(***************************************************************************)
NoPlayer == -1
NoZone == -1
NoEntity == -1

(***************************************************************************)
(* Generic helpers: partial maps (FxHashMap) as functions, Vec as Seq.     *)
(***************************************************************************)
EmptyMap == [x \in {} |-> 0]

MapPut(f, k, v) == [x \in (DOMAIN f) \cup {k} |-> IF x = k THEN v ELSE f[x]]

MapDel(f, k) == [x \in (DOMAIN f) \ {k} |-> f[x]]

MapGet(f, k, default) == IF k \in DOMAIN f THEN f[k] ELSE default

Range(s) == {s[i] : i \in DOMAIN s}

\* Vec::retain(|&x| x != e)
Retain(s, e) == SelectSeq(s, LAMBDA x : x # e)

\* Vec::insert(idx, e), idx 0-based and at most Len(s)
VecInsert(s, idx, e) == SubSeq(s, 1, idx) \o <<e>> \o SubSeq(s, idx + 1, Len(s))

\* Vec::pop removes the last element
VecInit(s) == SubSeq(s, 1, Len(s) - 1)

Min(a, b) == IF a <= b THEN a ELSE b

Max(a, b) == IF a >= b THEN a ELSE b

RECURSIVE SumSeq(_)
SumSeq(s) == IF s = <<>> THEN 0 ELSE s[1] + SumSeq(Tail(s))

(***************************************************************************)
(* ZoneManager (zones/manager.rs).  locations : entity -> zone,            *)
(* zone_order : zone -> Vec<entity>, only for initialised ordered zones.   *)
(* A ZonePosition is [kind |-> "Top" | "Bottom" | "Index" | "None", i].    *)
(***************************************************************************)
ZoneManager_new == [locations |-> EmptyMap, zone_order |-> EmptyMap]

PosNone == [kind |-> "None", i |-> 0]
PosTop == [kind |-> "Top", i |-> 0]
PosBottom == [kind |-> "Bottom", i |-> 0]
PosIndex(n) == [kind |-> "Index", i |-> n]

init_ordered_zone(z, zone) ==
    IF zone \in DOMAIN z.zone_order
    THEN z
    ELSE [z EXCEPT !.zone_order = MapPut(@, zone, <<>>)]

is_ordered(z, zone) == zone \in DOMAIN z.zone_order

\* the match on position.unwrap_or(Top) shared by add_to_zone and move_to_zone
insert_at(order, position, entity) ==
    CASE position.kind = "Bottom" -> VecInsert(order, 0, entity)
      [] position.kind = "Index" -> VecInsert(order, Min(position.i, Len(order)), entity)
      [] OTHER -> Append(order, entity)

\* add_to_zone panics when the entity is already tracked
add_to_zone_panics(z, entity) == entity \in DOMAIN z.locations

add_to_zone(z, entity, zone, position) ==
    LET loc == MapPut(z.locations, entity, zone)
    IN  IF zone \in DOMAIN z.zone_order
        THEN [locations |-> loc,
              zone_order |-> [z.zone_order EXCEPT ![zone] = insert_at(@, position, entity)]]
        ELSE [locations |-> loc, zone_order |-> z.zone_order]

\* faulty variant of move_to_zone: the entity stays in its old zone's order
move_to_zone_keep(z, entity, new_zone, position) ==
    IF entity \notin DOMAIN z.locations
    THEN [zm |-> z, ret |-> NoZone]
    ELSE IF z.locations[entity] = new_zone
         THEN [zm |-> z, ret |-> new_zone]
         ELSE [zm |-> [locations |-> MapPut(z.locations, entity, new_zone),
                       zone_order |-> IF new_zone \in DOMAIN z.zone_order
                                      THEN [z.zone_order EXCEPT ![new_zone] =
                                               insert_at(@, position, entity)]
                                      ELSE z.zone_order],
               ret |-> z.locations[entity]]

move_to_zone(z, entity, new_zone, position) ==
    IF entity \notin DOMAIN z.locations
    THEN [zm |-> z, ret |-> NoZone]
    ELSE LET old_zone == z.locations[entity]
             ord1 == IF old_zone \in DOMAIN z.zone_order
                     THEN [z.zone_order EXCEPT ![old_zone] = Retain(@, entity)]
                     ELSE z.zone_order
             ord2 == IF new_zone \in DOMAIN ord1
                     THEN [ord1 EXCEPT ![new_zone] = insert_at(@, position, entity)]
                     ELSE ord1
         IN  IF old_zone = new_zone
             THEN [zm |-> z, ret |-> old_zone]
             ELSE [zm |-> [locations |-> MapPut(z.locations, entity, new_zone),
                           zone_order |-> ord2],
                   ret |-> old_zone]

\* faulty variant of remove: the entity stays in the sequence of its zone
remove_from_locations(z, entity) ==
    IF entity \notin DOMAIN z.locations
    THEN [zm |-> z, ret |-> NoZone]
    ELSE [zm |-> [z EXCEPT !.locations = MapDel(@, entity)],
          ret |-> z.locations[entity]]

remove(z, entity) ==
    IF entity \notin DOMAIN z.locations
    THEN [zm |-> z, ret |-> NoZone]
    ELSE LET zone == z.locations[entity]
         IN  [zm |-> [locations |-> MapDel(z.locations, entity),
                      zone_order |-> IF zone \in DOMAIN z.zone_order
                                     THEN [z.zone_order EXCEPT ![zone] = Retain(@, entity)]
                                     ELSE z.zone_order],
              ret |-> zone]

get_zone(z, entity) == MapGet(z.locations, entity, NoZone)

cards_in_zone(z, zone) == {e \in DOMAIN z.locations : z.locations[e] = zone}

zone_size(z, zone) ==
    IF zone \in DOMAIN z.zone_order
    THEN Len(z.zone_order[zone])
    ELSE Cardinality(cards_in_zone(z, zone))

top_card(z, zone) ==
    IF zone \in DOMAIN z.zone_order /\ z.zone_order[zone] # <<>>
    THEN z.zone_order[zone][Len(z.zone_order[zone])]
    ELSE NoEntity

pop_top(z, zone) ==
    IF zone \notin DOMAIN z.zone_order \/ z.zone_order[zone] = <<>>
    THEN [zm |-> z, ret |-> NoEntity]
    ELSE LET order == z.zone_order[zone]
             entity == order[Len(order)]
         IN  [zm |-> [locations |-> MapDel(z.locations, entity),
                      zone_order |-> [z.zone_order EXCEPT ![zone] = VecInit(order)]],
              ret |-> entity]

pop_bottom(z, zone) ==
    IF zone \notin DOMAIN z.zone_order \/ z.zone_order[zone] = <<>>
    THEN [zm |-> z, ret |-> NoEntity]
    ELSE LET order == z.zone_order[zone]
             entity == order[1]
         IN  [zm |-> [locations |-> MapDel(z.locations, entity),
                      zone_order |-> [z.zone_order EXCEPT ![zone] = Tail(order)]],
              ret |-> entity]

\* rng.shuffle(order): the permutation drawn from the ChaCha stream is an
\* input of the model, a rotation by rot followed by an optional reversal
Rotate(s, rot) ==
    IF s = <<>> THEN s
    ELSE LET k == rot % Len(s)
         IN  SubSeq(s, k + 1, Len(s)) \o SubSeq(s, 1, k)

Reverse(s) == [i \in 1..Len(s) |-> s[Len(s) + 1 - i]]

shuffle_zone(z, zone, draw) ==
    IF zone \in DOMAIN z.zone_order
    THEN [z EXCEPT !.zone_order[zone] =
             IF draw.rev THEN Reverse(Rotate(@, draw.rot)) ELSE Rotate(@, draw.rot)]
    ELSE z


(***************************************************************************)
(* GameRng (core/rng.rs).  The ChaCha8 stream is identified by its seed    *)
(* and word position; seeds are u64 in the code and RngWidth bits here.    *)
(***************************************************************************)
RngWidth == 4
RngModulus == 2 ^ RngWidth
GoldenGamma == 5       \* stands for 0x9E3779B97F4A7C15, odd like it

GameRng_new(seed) == [seed |-> seed % RngModulus, word_pos |-> 0, fork_counter |-> 0]

\* fork(&mut self): returns the parent after the call and the child
fork(rng) ==
    LET fc == rng.fork_counter + 1
        fork_seed == (rng.seed + fc * GoldenGamma) % RngModulus
    IN  [parent |-> [rng EXCEPT !.fork_counter = fc],
         child |-> [seed |-> fork_seed, word_pos |-> 0, fork_counter |-> 0]]

(***************************************************************************)
(* PublicState and GameState (core/state.rs).                              *)
(***************************************************************************)
PlayerIds(player_count) == 0..(player_count - 1)

PublicState_new(player_count) ==
    [player_count |-> player_count,
     turn_number |-> 1,
     action_sequence |-> 0,
     active_player |-> 0,
     priority_players |-> <<0>>,
     player_state |-> [p \in PlayerIds(player_count) |-> EmptyMap],
     turn_state |-> EmptyMap,
     hand_sizes |-> [p \in PlayerIds(player_count) |-> 0]]

first_non_player(player_count) == player_count

GameState_new(player_count, seed) ==
    [public |-> PublicState_new(player_count),
     zones |-> ZoneManager_new,
     hands |-> [p \in PlayerIds(player_count) |-> <<>>],
     decks |-> [p \in PlayerIds(player_count) |-> <<>>],
     cards |-> EmptyMap,
     rng |-> GameRng_new(seed),
     next_entity_id |-> first_non_player(player_count)]

get_player_state(st, player, key, default) ==
    MapGet(st.public.player_state[player], key, default)

set_player_state(st, player, key, value) ==
    [st EXCEPT !.public.player_state[player] = MapPut(@, key, value)]

modify_player_state(st, player, key, delta) ==
    set_player_state(st, player, key, get_player_state(st, player, key, 0) + delta)

get_turn_state(st, key, default) == MapGet(st.public.turn_state, key, default)

set_turn_state(st, key, value) ==
    [st EXCEPT !.public.turn_state = MapPut(@, key, value)]

\* EntityId::is_player / as_player_index (core/entity.rs)
is_player(entity, player_count) == entity < player_count

CardInstance_new(entity_id, card_id, owner, zone) ==
    [entity_id |-> entity_id, card_id |-> card_id, owner |-> owner,
     controller |-> owner, zone |-> zone, face_down |-> FALSE, state |-> EmptyMap]

\* next_entity_id is a u32 in the code and EntityWidth bits here
EntityWidth == 3
EntityModulus == 2 ^ EntityWidth

\* self.next_entity_id += 1 overflows: a panic in a build with overflow
\* checks, a wrap to 0 in a build without
alloc_entity_overflows(st) == st.next_entity_id = EntityModulus - 1

alloc_entity(st) ==
    [st |-> [st EXCEPT !.next_entity_id = (@ + 1) % EntityModulus],
     ret |-> st.next_entity_id]

add_card(st, card) ==
    [st EXCEPT !.cards = MapPut(@, card.entity_id, card),
               !.zones = add_to_zone(st.zones, card.entity_id, card.zone, PosNone)]

add_to_hand(st, player, card_id) ==
    [st EXCEPT !.hands[player] = Append(@, card_id),
               !.public.hand_sizes[player] = @ + 1]

\* Vec::position: the first index holding card_id, 0 when there is none
FirstIndex(s, x) ==
    IF x \in Range(s) THEN CHOOSE i \in DOMAIN s : s[i] = x /\ \A j \in 1..(i - 1) : s[j] # x
    ELSE 0

remove_from_hand(st, player, card_id) ==
    LET pos == FirstIndex(st.hands[player], card_id)
    IN  IF pos # 0
        THEN [st |-> [st EXCEPT !.hands[player] = SubSeq(@, 1, pos - 1) \o SubSeq(@, pos + 1, Len(@)),
                                !.public.hand_sizes[player] = @ - 1],
              ret |-> TRUE]
        ELSE [st |-> st, ret |-> FALSE]

set_deck(st, player, deck) == [st EXCEPT !.decks[player] = deck]

draw_card(st, player) ==
    IF st.decks[player] = <<>>
    THEN [st |-> st, ret |-> NoEntity]
    ELSE LET card_id == st.decks[player][Len(st.decks[player])]
         IN  [st |-> add_to_hand([st EXCEPT !.decks[player] = VecInit(@)], player, card_id),
              ret |-> card_id]

\* faulty variant of clone_state: the source keeps the forked stream and the
\* clone takes over the source's
clone_state_swapped(st) ==
    [source |-> [st EXCEPT !.rng = fork(st.rng).child],
     clone |-> [st EXCEPT !.rng = fork(st.rng).parent]]

\* faulty variant of clone_state: the fork leaves no trace in the source
clone_state_unforked(st) ==
    [source |-> st,
     clone |-> [st EXCEPT !.rng = fork(st.rng).child]]

clone_state(st) ==
    LET f == fork(st.rng)
    IN  [source |-> [st EXCEPT !.rng = f.parent],
         clone |-> [st EXCEPT !.rng = f.child]]

(***************************************************************************)
(* Effects (effects/effect.rs) and the resolver (effects/resolver.rs).     *)
(* A ResolverContext is [get_deck_zone, get_hand_zone : player -> zone,    *)
(* eval_condition : the condition keys that evaluate true, draw : the      *)
(* permutation the RNG yields when a zone is shuffled].                    *)
(***************************************************************************)
ModifyPlayerState(key, delta) == [type |-> "ModifyPlayerState", key |-> key, delta |-> delta]
SetPlayerState(key, value) == [type |-> "SetPlayerState", key |-> key, value |-> value]
MoveCard(destination, position) ==
    [type |-> "MoveCard", destination |-> destination, position |-> position]
DrawCards(count, from_zone, to_zone) ==
    [type |-> "DrawCards", count |-> count, from_zone |-> from_zone, to_zone |-> to_zone]
ModifyCardState(key, delta) == [type |-> "ModifyCardState", key |-> key, delta |-> delta]
SetCardState(key, value) == [type |-> "SetCardState", key |-> key, value |-> value]
ModifyTurnState(key, delta) == [type |-> "ModifyTurnState", key |-> key, delta |-> delta]
SetTurnState(key, value) == [type |-> "SetTurnState", key |-> key, value |-> value]
ShuffleZone(zone) == [type |-> "ShuffleZone", zone |-> zone]
Batch(effects) == [type |-> "Batch", effects |-> effects]
Conditional(condition_key, effect) ==
    [type |-> "Conditional", condition_key |-> condition_key, effect |-> effect]

Success == "Success"
Failed == "Failed"
Skipped == "Skipped"

\* one turn of the `for _ in 0..count` loop of the DrawCards arm, after
\* pop_top returned Some(entity_id) and left the zone manager `zones`
draw_one(st, player, hand, zones, entity_id) ==
    [st EXCEPT !.zones = add_to_zone(zones, entity_id, hand, PosNone),
               !.cards = IF entity_id \in DOMAIN @
                         THEN [@ EXCEPT ![entity_id].zone = hand]
                         ELSE @,
               !.public.hand_sizes[player] = @ + 1]

\* faulty variant of the loop: counts a card for every turn, drawn or not
draw_loop_unchecked(st, player, deck, hand, count, drawn) ==
    [st |-> [st EXCEPT !.public.hand_sizes[player] = @ + count],
     drawn |-> drawn + count]

\* the loop: `drawn` counts the cards moved; it ends early on an empty deck
RECURSIVE draw_loop(_, _, _, _, _, _)
draw_loop(st, player, deck, hand, count, drawn) ==
    IF count = 0 \/ top_card(st.zones, deck) = NoEntity
    THEN [st |-> st, drawn |-> drawn]
    ELSE draw_loop(draw_one(st, player, hand, pop_top(st.zones, deck).zm,
                            top_card(st.zones, deck)),
                   player, deck, hand, count - 1, drawn + 1)

\* faulty variant of the MoveCard arm: the card instance keeps its old zone
move_card_stale(st, target, destination, position) ==
    [st EXCEPT !.zones = move_to_zone(@, target, destination, position).zm]

\* the MoveCard arm for a non-player target
move_card(st, target, destination, position) ==
    [st EXCEPT !.zones = move_to_zone(@, target, destination, position).zm,
               !.cards = IF target \in DOMAIN @
                         THEN [@ EXCEPT ![target].zone = destination]
                         ELSE @]

RECURSIVE resolve_single(_, _, _, _)
RECURSIVE resolve_batch_arm(_, _, _, _)

\* faulty variant of the Effect::Batch arm: goes on after a failure
RECURSIVE resolve_batch_arm_through(_, _, _, _)
resolve_batch_arm_through(st, effects, target, context) ==
    IF effects = <<>>
    THEN [st |-> st, res |-> Success]
    ELSE resolve_batch_arm_through(resolve_single(st, Head(effects), target, context).st,
                                   Tail(effects), target, context)

\* the Effect::Batch arm: stop at the first Failed and return it
resolve_batch_arm(st, effects, target, context) ==
    IF effects = <<>>
    THEN [st |-> st, res |-> Success]
    ELSE LET r == resolve_single(st, Head(effects), target, context)
         IN  IF r.res = Failed
             THEN r
             ELSE resolve_batch_arm(r.st, Tail(effects), target, context)

resolve_single(st, effect, target, context) ==
    LET player_count == st.public.player_count
        not_player == [st |-> st, res |-> Failed]
    IN  CASE effect.type = "ModifyPlayerState" ->
                IF is_player(target, player_count)
                THEN [st |-> modify_player_state(st, target, effect.key, effect.delta),
                      res |-> Success]
                ELSE not_player
          [] effect.type = "SetPlayerState" ->
                IF is_player(target, player_count)
                THEN [st |-> set_player_state(st, target, effect.key, effect.value),
                      res |-> Success]
                ELSE not_player
          [] effect.type = "MoveCard" ->
                IF ~is_player(target, player_count)
                THEN [st |-> move_card(st, target, effect.destination, effect.position),
                      res |-> Success]
                ELSE not_player
          [] effect.type = "DrawCards" ->
                IF is_player(target, player_count)
                THEN LET deck == IF effect.from_zone = NoZone
                                 THEN context.get_deck_zone[target]
                                 ELSE effect.from_zone
                         hand == IF effect.to_zone = NoZone
                                 THEN context.get_hand_zone[target]
                                 ELSE effect.to_zone
                         d == draw_loop(st, target, deck, hand, effect.count, 0)
                     IN  [st |-> d.st, res |-> IF d.drawn > 0 THEN Success ELSE Failed]
                ELSE not_player
          [] effect.type = "ModifyCardState" ->
                IF ~is_player(target, player_count) /\ target \in DOMAIN st.cards
                THEN [st |-> [st EXCEPT !.cards[target].state =
                                 MapPut(@, effect.key, MapGet(@, effect.key, 0) + effect.delta)],
                      res |-> Success]
                ELSE not_player
          [] effect.type = "SetCardState" ->
                IF ~is_player(target, player_count) /\ target \in DOMAIN st.cards
                THEN [st |-> [st EXCEPT !.cards[target].state = MapPut(@, effect.key, effect.value)],
                      res |-> Success]
                ELSE not_player
          [] effect.type = "ModifyTurnState" ->
                [st |-> set_turn_state(st, effect.key,
                                       get_turn_state(st, effect.key, 0) + effect.delta),
                 res |-> Success]
          [] effect.type = "SetTurnState" ->
                [st |-> set_turn_state(st, effect.key, effect.value), res |-> Success]
          [] effect.type = "ShuffleZone" ->
                [st |-> [st EXCEPT !.zones = shuffle_zone(@, effect.zone, context.draw),
                                   !.rng.word_pos = @ + 1],
                 res |-> Success]
          [] effect.type = "Batch" ->
                resolve_batch_arm(st, effect.effects, target, context)
          [] effect.type = "Conditional" ->
                IF effect.condition_key \in context.eval_condition
                THEN resolve_single(st, effect.effect, target, context)
                ELSE [st |-> st, res |-> Skipped]

resolve_zone_effect(st, effect, context) ==
    CASE effect.type = "ShuffleZone" ->
            [st |-> [st EXCEPT !.zones = shuffle_zone(@, effect.zone, context.draw),
                               !.rng.word_pos = @ + 1],
             res |-> Success]
      [] effect.type = "ModifyTurnState" ->
            [st |-> set_turn_state(st, effect.key,
                                   get_turn_state(st, effect.key, 0) + effect.delta),
             res |-> Success]
      [] effect.type = "SetTurnState" ->
            [st |-> set_turn_state(st, effect.key, effect.value), res |-> Success]
      [] OTHER -> [st |-> st, res |-> Failed]

\* one EffectEntry of a batch: every target in slice order, or the zone path
RECURSIVE resolve_targets(_, _, _, _, _)
resolve_targets(st, effect, targets, context, results) ==
    IF targets = <<>>
    THEN [st |-> st, results |-> results]
    ELSE LET r == resolve_single(st, effect, Head(targets), context)
         IN  resolve_targets(r.st, effect, Tail(targets), context, Append(results, r.res))

\* An EffectBatch is a sequence of [effect, targets]
RECURSIVE resolve_batch_from(_, _, _, _)
resolve_batch_from(st, batch, context, results) ==
    IF batch = <<>>
    THEN [st |-> st, results |-> results]
    ELSE LET entry == Head(batch)
             r == IF entry.targets = <<>>
                  THEN LET z == resolve_zone_effect(st, entry.effect, context)
                       IN  [st |-> z.st, results |-> Append(results, z.res)]
                  ELSE resolve_targets(st, entry.effect, entry.targets, context, results)
         IN  resolve_batch_from(r.st, Tail(batch), context, r.results)

resolve_batch(st, batch, context) == resolve_batch_from(st, batch, context, <<>>)

(***************************************************************************)
(* PriorityStack (stack/priority.rs).                                      *)
(* A StackEntry is [id, effects, controller, source]; the source is        *)
(* [kind |-> "Action" | "Triggered" | "Response", trigger_id].             *)
(* A TriggeredEffect is [trigger_id, controller, effects].                 *)
(***************************************************************************)
PriorityStack_new(player_count) ==
    [entries |-> <<>>,
     pending_triggers |-> <<>>,
     current_priority |-> 0,
     consecutive_passes |-> 0,
     player_count |-> player_count,
     next_id |-> 0]

with_priority(player_count, starting_priority) ==
    [PriorityStack_new(player_count) EXCEPT !.current_priority = starting_priority]

NoTrigger == -1
NoEntry == [id |-> -1, effects |-> <<>>, controller |-> NoPlayer,
            source |-> [kind |-> "None", trigger_id |-> NoTrigger]]

Complete == [kind |-> "Complete", player |-> NoPlayer]
Processing == [kind |-> "Processing", player |-> NoPlayer]
WaitingForPriority(player) == [kind |-> "WaitingForPriority", player |-> player]

advance_priority(ps) ==
    [ps EXCEPT !.current_priority = (ps.current_priority + 1) % ps.player_count]

\* faulty variants of pass: one keeps priority where it is, one lets any
\* player pass
pass_stay(ps, player) ==
    IF player # ps.current_priority
    THEN [ps |-> ps, ret |-> FALSE]
    ELSE [ps |-> [ps EXCEPT !.consecutive_passes = @ + 1],
          ret |-> ps.consecutive_passes + 1 >= ps.player_count]

pass_unchecked(ps, player) ==
    LET ps1 == [ps EXCEPT !.consecutive_passes = @ + 1]
    IN  IF ps1.consecutive_passes >= ps1.player_count
        THEN [ps |-> ps1, ret |-> TRUE]
        ELSE [ps |-> advance_priority(ps1), ret |-> FALSE]

pass(ps, player) ==
    IF player # ps.current_priority
    THEN [ps |-> ps, ret |-> FALSE]
    ELSE LET ps1 == [ps EXCEPT !.consecutive_passes = @ + 1]
         IN  IF ps1.consecutive_passes >= ps1.player_count
             THEN [ps |-> ps1, ret |-> TRUE]
             ELSE [ps |-> advance_priority(ps1), ret |-> FALSE]

\* faulty variant of respond: the pass count survives the push
respond_keep(ps, effects, controller) ==
    [ps EXCEPT !.next_id = @ + 1,
               !.entries = Append(@, [id |-> ps.next_id, effects |-> effects,
                                      controller |-> controller,
                                      source |-> [kind |-> "Response",
                                                  trigger_id |-> NoTrigger]]),
               !.current_priority = controller]

\* faulty variant of respond: the response takes the place of the top entry
respond_replace(ps, effects, controller) ==
    [ps EXCEPT !.next_id = @ + 1,
               !.entries = Append(VecInit(@), [id |-> ps.next_id, effects |-> effects,
                                               controller |-> controller,
                                               source |-> [kind |-> "Response",
                                                           trigger_id |-> NoTrigger]]),
               !.consecutive_passes = 0,
               !.current_priority = controller]

respond(ps, effects, controller) ==
    [ps EXCEPT !.next_id = @ + 1,
               !.entries = Append(@, [id |-> ps.next_id, effects |-> effects,
                                      controller |-> controller,
                                      source |-> [kind |-> "Response",
                                                  trigger_id |-> NoTrigger]]),
               !.consecutive_passes = 0,
               !.current_priority = controller]

\* a flush that leaves the pending triggers in the order they were queued
keep_queue_order(s) == s

\* pending_triggers.sort_by(|a, b| a.trigger_id.0.cmp(&b.trigger_id.0)); the
\* sort is stable.  The place it gives element i of s:
trigger_id_rank(s, i) ==
    1 + Cardinality({j \in 1..Len(s) :
            \/ s[j].trigger_id < s[i].trigger_id
            \/ s[j].trigger_id = s[i].trigger_id /\ j < i})

sort_by_trigger_id(s) ==
    [k \in 1..Len(s) |-> s[CHOOSE i \in 1..Len(s) : trigger_id_rank(s, i) = k]]

\* the batch built for one triggered effect
triggered_batch(triggered) ==
    [i \in 1..Len(triggered.effects) |->
        [effect |-> triggered.effects[i],
         targets |-> IF triggered.controller # NoPlayer
                     THEN <<triggered.controller>>
                     ELSE <<>>]]

flush_triggers(ps) ==
    IF ps.pending_triggers = <<>>
    THEN ps
    ELSE LET sorted == sort_by_trigger_id(ps.pending_triggers)
             pushed == [i \in 1..Len(sorted) |->
                          [id |-> ps.next_id + i - 1,
                           effects |-> triggered_batch(sorted[i]),
                           controller |-> IF sorted[i].controller # NoPlayer
                                          THEN sorted[i].controller
                                          ELSE 0,
                           source |-> [kind |-> "Triggered",
                                       trigger_id |-> sorted[i].trigger_id]]]
         IN  [ps EXCEPT !.next_id = @ + Len(sorted),
                        !.entries = @ \o pushed,
                        !.pending_triggers = <<>>,
                        !.consecutive_passes = 0]

\* faulty variant of resolve_top: takes the oldest entry (a queue)
resolve_bottom(ps, st, context) ==
    IF ps.entries = <<>>
    THEN [ps |-> ps, st |-> st, entry |-> NoEntry]
    ELSE [ps |-> [ps EXCEPT !.entries = Tail(@),
                            !.consecutive_passes = 0,
                            !.current_priority = Head(ps.entries).controller],
          st |-> resolve_batch(st, Head(ps.entries).effects, context).st,
          entry |-> Head(ps.entries)]

\* faulty variant of resolve_top: priority stays where the passes left it
resolve_top_keep_priority(ps, st, context) ==
    IF ps.entries = <<>>
    THEN [ps |-> ps, st |-> st, entry |-> NoEntry]
    ELSE [ps |-> [ps EXCEPT !.entries = VecInit(@),
                            !.consecutive_passes = 0],
          st |-> resolve_batch(st, ps.entries[Len(ps.entries)].effects, context).st,
          entry |-> ps.entries[Len(ps.entries)]]

\* faulty variant of resolve_top: resolves the top entry and leaves it there
resolve_top_peek(ps, st, context) ==
    IF ps.entries = <<>>
    THEN [ps |-> ps, st |-> st, entry |-> NoEntry]
    ELSE [ps |-> [ps EXCEPT !.consecutive_passes = 0,
                            !.current_priority = ps.entries[Len(ps.entries)].controller],
          st |-> resolve_batch(st, ps.entries[Len(ps.entries)].effects, context).st,
          entry |-> ps.entries[Len(ps.entries)]]

resolve_top(ps, st, context) ==
    IF ps.entries = <<>>
    THEN [ps |-> ps, st |-> st, entry |-> NoEntry]
    ELSE LET entry == ps.entries[Len(ps.entries)]
             results == resolve_batch(st, entry.effects, context)
         IN  [ps |-> [ps EXCEPT !.entries = VecInit(@),
                                !.consecutive_passes = 0,
                                !.current_priority = entry.controller],
              st |-> results.st,
              entry |-> entry]

set_priority(ps, player) ==
    [ps EXCEPT !.current_priority = player, !.consecutive_passes = 0]

queue_action(ps, effects, controller) ==
    IF effects = <<>>
    THEN ps
    ELSE [ps EXCEPT !.next_id = @ + 1,
                    !.entries = Append(@, [id |-> ps.next_id, effects |-> effects,
                                           controller |-> controller,
                                           source |-> [kind |-> "Action",
                                                       trigger_id |-> NoTrigger]]),
                    !.consecutive_passes = 0,
                    !.current_priority = controller]

queue_triggered(ps, triggered) ==
    IF triggered.effects # <<>>
    THEN [ps EXCEPT !.pending_triggers = Append(@, triggered)]
    ELSE ps

\* faulty variant of process: resolves one pass early
process_early(ps, st, context) ==
    LET ps1 == IF ps.pending_triggers # <<>> THEN flush_triggers(ps) ELSE ps
    IN  IF ps1.entries = <<>>
        THEN [ps |-> ps1, st |-> st, status |-> Complete, resolved |-> NoEntry]
        ELSE IF ps1.consecutive_passes + 1 >= ps1.player_count
             THEN LET r == resolve_top(ps1, st, context)
                  IN  [ps |-> r.ps, st |-> r.st,
                       status |-> IF r.ps.entries = <<>> /\ r.ps.pending_triggers = <<>>
                                  THEN Complete
                                  ELSE Processing,
                       resolved |-> r.entry]
             ELSE [ps |-> ps1, st |-> st,
                   status |-> WaitingForPriority(ps1.current_priority),
                   resolved |-> NoEntry]

\* process returns the status; `resolved` is what resolve_top returned
\* (process drops it), NoEntry when resolve_top was not called
process(ps, st, context) ==
    LET ps1 == IF ps.pending_triggers # <<>> THEN flush_triggers(ps) ELSE ps
    IN  IF ps1.entries = <<>>
        THEN [ps |-> ps1, st |-> st, status |-> Complete, resolved |-> NoEntry]
        ELSE IF ps1.consecutive_passes >= ps1.player_count
             THEN LET r == resolve_top(ps1, st, context)
                  IN  [ps |-> r.ps, st |-> r.st,
                       status |-> IF r.ps.entries = <<>> /\ r.ps.pending_triggers = <<>>
                                  THEN Complete
                                  ELSE Processing,
                       resolved |-> r.entry]
             ELSE [ps |-> ps1, st |-> st,
                   status |-> WaitingForPriority(ps1.current_priority),
                   resolved |-> NoEntry]

is_complete(ps) == ps.entries = <<>> /\ ps.pending_triggers = <<>>

priority_player(ps) == IF is_complete(ps) THEN NoPlayer ELSE ps.current_priority

clear(ps) ==
    [ps EXCEPT !.entries = <<>>, !.pending_triggers = <<>>, !.consecutive_passes = 0]

(***************************************************************************)
(* TriggerRegistry (triggers/registry.rs).  triggers : id -> Trigger,       *)
(* by_event_type : event type -> Vec<id>, next_id.  A Trigger is            *)
(* [id, source, controller, event_types, effects, enabled, priority]; the    *)
(* triggers built here keep the default timing (After), condition (Always)  *)
(* and uses_remaining (None).                                               *)
(***************************************************************************)
TriggerRegistry_new == [triggers |-> EmptyMap, by_event_type |-> EmptyMap, next_id |-> 0]

\* TriggerTiming (Instead is not used) and the TriggerConditions Always and
\* Never; uses_remaining is <<>> for None and <<n>> for Some(n)
After == "After"
Before == "Before"
Always == "Always"
Never == "Never"

Trigger_new(id, event_type) ==
    [id |-> id, source |-> NoEntity, controller |-> NoPlayer,
     event_types |-> <<event_type>>, condition |-> Always, timing |-> After,
     effects |-> <<>>, enabled |-> TRUE, uses_remaining |-> <<>>, priority |-> 0]

with_condition(trigger, condition) == [trigger EXCEPT !.condition = condition]

with_timing(trigger, timing) == [trigger EXCEPT !.timing = timing]

with_uses(trigger, uses) == [trigger EXCEPT !.uses_remaining = <<uses>>]

\* ConditionEvaluator::evaluate, the arms Always and Never
evaluate(condition) == condition = Always

with_source(trigger, source) == [trigger EXCEPT !.source = source]

with_controller(trigger, controller) == [trigger EXCEPT !.controller = controller]

with_effect(trigger, effect) == [trigger EXCEPT !.effects = Append(@, effect)]

\* Trigger::with_priority
trigger_with_priority(trigger, priority) == [trigger EXCEPT !.priority = priority]

can_fire(trigger) ==
    trigger.enabled /\ (trigger.uses_remaining = <<>> \/ trigger.uses_remaining[1] > 0)

also_on(trigger, event_type) ==
    IF event_type \in Range(trigger.event_types)
    THEN trigger
    ELSE [trigger EXCEPT !.event_types = Append(@, event_type)]

\* for event_type in &trigger.event_types { by_event_type.entry(..).or_default().push(id) }
RECURSIVE index_by_event_types(_, _, _)
index_by_event_types(index, event_types, id) ==
    IF event_types = <<>>
    THEN index
    ELSE index_by_event_types(
             MapPut(index, Head(event_types),
                    Append(MapGet(index, Head(event_types), <<>>), id)),
             Tail(event_types), id)

register(r, trigger) ==
    LET id == IF trigger.id = 0 THEN r.next_id ELSE trigger.id
    IN  [reg |-> [triggers |-> MapPut(r.triggers, id, [trigger EXCEPT !.id = id]),
                  by_event_type |-> index_by_event_types(r.by_event_type,
                                                         trigger.event_types, id),
                  next_id |-> IF trigger.id = 0 THEN r.next_id + 1 ELSE r.next_id],
         ret |-> id]

register_with_id(r, trigger) ==
    [reg |-> [triggers |-> MapPut(r.triggers, trigger.id, trigger),
              by_event_type |-> index_by_event_types(r.by_event_type,
                                                     trigger.event_types, trigger.id),
              next_id |-> IF trigger.id >= r.next_id THEN trigger.id + 1 ELSE r.next_id],
     ret |-> trigger.id]

\* the index after list.retain(|&tid| tid != id) on the buckets of the given
\* event types, buckets left empty removed
unindex(index, event_types, id) ==
    LET touched == Range(event_types) \cap DOMAIN index
        emptied == {t \in touched : Retain(index[t], id) = <<>>}
    IN  [t \in (DOMAIN index) \ emptied |->
            IF t \in touched THEN Retain(index[t], id) ELSE index[t]]

\* unregister returns Some(trigger) (ret TRUE) or None
unregister(r, id) ==
    IF id \in DOMAIN r.triggers
    THEN [reg |-> [r EXCEPT !.triggers = MapDel(@, id),
                            !.by_event_type = unindex(@, r.triggers[id].event_types, id)],
          ret |-> TRUE]
    ELSE [reg |-> r, ret |-> FALSE]

triggers_for_source(r, source) ==
    {id \in DOMAIN r.triggers : r.triggers[id].source = source}

\* for id in to_remove { self.unregister(id); }   (the calls commute)
RECURSIVE unregister_all(_, _)
unregister_all(r, ids) ==
    IF ids = {}
    THEN r
    ELSE LET id == CHOOSE x \in ids : TRUE
         IN  unregister_all(unregister(r, id).reg, ids \ {id})

remove_for_source(r, source) == unregister_all(r, triggers_for_source(r, source))

\* the place results.sort_by gives element i of s: priority descending, then
\* trigger id ascending, equal elements in their old order (the sort is stable)
priority_rank(s, i) ==
    1 + Cardinality({j \in 1..Len(s) :
            \/ s[j].priority > s[i].priority
            \/ s[j].priority = s[i].priority /\ s[j].trigger_id < s[i].trigger_id
            \/ s[j].priority = s[i].priority /\ s[j].trigger_id = s[i].trigger_id /\ j < i})

\* faulty variant of the sort: the results stay in bucket order
keep_bucket_order(s) == s

sort_by_priority(s) ==
    [k \in 1..Len(s) |-> s[CHOOSE i \in 1..Len(s) : priority_rank(s, i) = k]]

\* the ids of the bucket that pass the checks of find_triggers, in bucket
\* order
firing_ids(r, event_type, timing) ==
    SelectSeq(MapGet(r.by_event_type, event_type, <<>>),
              LAMBDA id : /\ id \in DOMAIN r.triggers
                          /\ r.triggers[id].timing = timing
                          /\ can_fire(r.triggers[id])
                          /\ evaluate(r.triggers[id].condition))

\* the (priority, trigger_id, TriggeredEffect) tuple find_triggers collects
\* for a trigger
matching_trigger(trigger_id, trigger) ==
    [priority |-> trigger.priority,
     trigger_id |-> trigger_id,
     controller |-> trigger.controller,
     effects |-> trigger.effects]

collect_matching(r, ids) ==
    [i \in 1..Len(ids) |-> matching_trigger(ids[i], r.triggers[ids[i]])]

matching_triggers(r, event_type, timing) ==
    collect_matching(r, firing_ids(r, event_type, timing))

\* results.into_iter().map(|(_, _, effect)| effect).collect()
triggered_effects(results) ==
    [i \in 1..Len(results) |->
        [trigger_id |-> results[i].trigger_id,
         controller |-> results[i].controller,
         effects |-> results[i].effects]]

\* the TriggeredEffects of an event of the given type at the given timing
find_triggers(r, event_type, timing) ==
    triggered_effects(sort_by_priority(matching_triggers(r, event_type, timing)))

set_enabled(r, id, enabled) ==
    IF id \in DOMAIN r.triggers
    THEN [r EXCEPT !.triggers[id].enabled = enabled]
    ELSE r

(***************************************************************************)
(* History record of the last call: op, the calling player or controller,  *)
(* the returned bool (ret) or StackStatus (status), the entry resolve_top   *)
(* returned, whether entries were pushed, the passers before a process      *)
(* call (round), the stack before the call (pre) and the entries that were  *)
(* on it (entries; clear is checked without them).                          *)
(***************************************************************************)
NoCall ==
    [op |-> "none", player |-> NoPlayer, ret |-> FALSE, status |-> Complete,
     resolved |-> NoEntry, pushed |-> FALSE, round |-> <<>>,
     pre |-> PriorityStack_new(1), entries |-> <<>>]

StackCall(op, player, ret, status, resolved, pushed, pre) ==
    [op |-> op, player |-> player, ret |-> ret, status |-> status,
     resolved |-> resolved, pushed |-> pushed, round |-> <<>>,
     pre |-> IF op \in {"pass", "process", "queue_action", "respond"}
             THEN pre
             ELSE PriorityStack_new(1),
     entries |-> IF op = "clear" THEN <<>> ELSE pre.entries]

(***************************************************************************)
(* The priority stack driven by a game: SpecStack.                         *)
(***************************************************************************)
IdleSearch == [pc |-> "idle"]

\* no buffer made, no self-play game under way
IdleBuffer == [trajectories |-> <<>>, max_trajectories |-> 0]
IdleWorker == [pc |-> "idle"]

\* ResolverContext::new(|_| deck, |_| hand) as in the tests
TestContext(player_count) ==
    [get_deck_zone |-> [p \in PlayerIds(player_count) |-> 0],
     get_hand_zone |-> [p \in PlayerIds(player_count) |-> 1],
     eval_condition |-> {},
     draw |-> [rot |-> 0, rev |-> FALSE]]

\* the batches a game queues: none, or "set counter to the number of the push"
\* on player 0 (the LIFO scenario of the tests).  The game opens a chain with
\* queue_action on an empty stack and adds to it with respond.
StackBatches(ps) ==
    {<<>>, <<[effect |-> SetPlayerState("counter", ps.next_id + 1), targets |-> <<0>>]>>}

\* the triggered effects a registry delivers: trigger t is controlled by
\* player t - 1 when there is one and by nobody otherwise; trigger 1 can also
\* arrive with an empty effect list
TriggeredEffects(ps) ==
    {[trigger_id |-> t,
      controller |-> IF t - 1 \in PlayerIds(ps.player_count) /\ t > 1 THEN t - 1 ELSE NoPlayer,
      effects |-> <<ModifyPlayerState("counter", 1)>>] : t \in 1..MaxTriggerId}
    \cup {[trigger_id |-> 1, controller |-> NoPlayer, effects |-> <<>>]}

\* entries pushed so far plus those waiting to be flushed
IdsInUse(ps) == ps.next_id + Len(ps.pending_triggers)

\* who calls pass: the priority holder, or the player after them out of turn
PassCallers(ps) == {ps.current_priority, (ps.current_priority + 1) % ps.player_count}

StackInit ==
    /\ \E n \in 1..MaxPlayers : \E start \in PlayerIds(n) :
          /\ stack = with_priority(n, start)
          /\ state = GameState_new(n, 0)
    /\ zm = ZoneManager_new
    /\ registry = TriggerRegistry_new
    /\ search = IdleSearch
    /\ last = NoCall
    /\ passers = <<>>
    /\ snapshots = <<>>
    /\ buffer = IdleBuffer
    /\ worker = IdleWorker

StackFrame == UNCHANGED <<zm, registry, search, snapshots, buffer, worker>>

QueueAction(controller, effects) ==
    /\ IdsInUse(stack) < MaxStackIds
    /\ stack.entries = <<>>
    /\ stack' = queue_action(stack, effects, controller)
    /\ last' = StackCall("queue_action", controller, FALSE, Complete, NoEntry,
                         effects # <<>>, stack)
    /\ passers' = IF effects # <<>> THEN <<>> ELSE passers
    /\ UNCHANGED state
    /\ StackFrame

Respond(controller, effects) ==
    /\ IdsInUse(stack) < MaxStackIds
    /\ effects # <<>>
    /\ stack.entries # <<>>
    /\ stack' = respond(stack, effects, controller)
    /\ last' = StackCall("respond", controller, FALSE, Complete, NoEntry, TRUE, stack)
    /\ passers' = <<>>
    /\ UNCHANGED state
    /\ StackFrame

QueueTriggered(triggered) ==
    /\ IdsInUse(stack) < MaxStackIds
    /\ stack' = queue_triggered(stack, triggered)
    /\ last' = StackCall("queue_triggered", triggered.controller, FALSE, Complete,
                         NoEntry, FALSE, stack)
    /\ UNCHANGED <<state, passers>>
    /\ StackFrame

Pass(player) ==
    /\ Max(0, stack.consecutive_passes + 1 - stack.player_count) \in ExtraPasses
    /\ LET r == pass(stack, player)
       IN  /\ stack' = r.ps
           /\ last' = StackCall("pass", player, r.ret, Complete, NoEntry, FALSE, stack)
           /\ passers' = IF player = stack.current_priority
                         THEN Append(passers, player)
                         ELSE passers
    /\ UNCHANGED state
    /\ StackFrame

Process ==
    /\ LET r == process(stack, state, TestContext(stack.player_count))
       IN  /\ stack' = r.ps
           /\ state' = r.st
           /\ last' = [StackCall("process", NoPlayer, FALSE, r.status, r.resolved,
                                 stack.pending_triggers # <<>>, stack)
                       EXCEPT !.round = passers]
           /\ passers' = IF stack.pending_triggers # <<>> \/ r.resolved # NoEntry
                         THEN <<>>
                         ELSE passers
    /\ StackFrame

SetPriority(player) ==
    /\ stack' = set_priority(stack, player)
    /\ last' = StackCall("set_priority", player, FALSE, Complete, NoEntry, FALSE, stack)
    /\ passers' = <<>>
    /\ UNCHANGED state
    /\ StackFrame

Clear ==
    /\ stack' = clear(stack)
    /\ last' = StackCall("clear", NoPlayer, FALSE, Complete, NoEntry, FALSE, stack)
    /\ passers' = <<>>
    /\ UNCHANGED state
    /\ StackFrame

NextStack ==
    \/ \E c \in PlayerIds(stack.player_count) : \E b \in StackBatches(stack) :
          QueueAction(c, b)
    \/ \E c \in PlayerIds(stack.player_count) : \E b \in StackBatches(stack) :
          Respond(c, b)
    \/ \E t \in TriggeredEffects(stack) : QueueTriggered(t)
    \/ \E p \in PassCallers(stack) : Pass(p)
    \/ Process
    \/ \E p \in PlayerIds(stack.player_count) : SetPriority(p)
    \/ Clear

SpecStack == StackInit /\ [][NextStack]_vars

(***************************************************************************)
(* Properties of the priority stack.                                       *)
(***************************************************************************)
Resolved == last.op = "process" /\ last.resolved # NoEntry

\* C1: resolution is strict LIFO.  Whenever process has resolved an entry,
\* that entry was on the stack, it was the most recently pushed one there
\* (ids are handed out in push order), and every entry still on the stack
\* was pushed before it.
C1_StrictLifo ==
    Resolved =>
        /\ \E i \in DOMAIN last.pre.entries : last.pre.entries[i] = last.resolved
        /\ \A i \in DOMAIN last.pre.entries : last.pre.entries[i].id <= last.resolved.id
        /\ \A i \in DOMAIN stack.entries : stack.entries[i].id < last.resolved.id
        /\ stack.entries = VecInit(last.pre.entries)

C1_Witness ==
    /\ Resolved
    /\ Len(last.pre.entries) >= 2

\* C2: process resolves an entry only when every one of the player_count
\* players has passed since the last push, trigger flush or resolution; on a
\* stack that holds something, with fewer passes (a flush by this very call
\* starts the count again) it resolves nothing, keeps the entries and returns
\* WaitingForPriority for the player holding priority.
C2_ResolveOnlyAfterFullRound ==
    last.op = "process" =>
        LET n == last.pre.player_count
            flushed == Len(last.pre.pending_triggers)
        IN  /\ last.resolved # NoEntry =>
                  /\ Len(last.round) >= n
                  /\ PlayerIds(n) \subseteq Range(last.round)
                  /\ flushed = 0
            /\ (~is_complete(last.pre) /\ (Len(last.round) < n \/ flushed > 0)) =>
                  /\ last.resolved = NoEntry
                  /\ last.status = WaitingForPriority(last.pre.current_priority)
                  /\ stack.current_priority = last.pre.current_priority
                  /\ Len(stack.entries) = Len(last.pre.entries) + flushed
                  /\ SubSeq(stack.entries, 1, Len(last.pre.entries)) = last.pre.entries

C2_Witness ==
    /\ Resolved
    /\ last.pre.player_count = 3
    /\ last.round = <<1, 2, 0>>

\* C3: a pass by the player holding priority returns false and hands
\* priority to (current + 1) mod player_count while fewer than player_count
\* consecutive passes have been made; the player_count-th returns true.
C3_PassByHolder ==
    (last.op = "pass" /\ last.player = last.pre.current_priority) =>
        LET n == last.pre.player_count
        IN  /\ Len(passers) = last.pre.consecutive_passes + 1
            /\ Len(passers) < n =>
                  /\ last.ret = FALSE
                  /\ stack.current_priority = (last.pre.current_priority + 1) % n
                  /\ ~is_complete(stack) =>
                        priority_player(stack) = (last.player + 1) % n
            /\ Len(passers) = n => last.ret = TRUE

\* the four-player example: one entry of player 0, passes by 0, 1, 2, 3
C3_Witness ==
    /\ stack.player_count = 4
    /\ Len(stack.entries) = 1
    /\ stack.entries[1].controller = 0
    /\ passers = <<0, 1, 2, 3>>
    /\ last.op = "pass"
    /\ last.ret = TRUE

\* C4: a pass by a player who does not hold priority returns false and
\* leaves the whole stack (holder, pass count, entries) as it was.
C4_WrongPlayerPass ==
    (last.op = "pass" /\ last.player # last.pre.current_priority) =>
        /\ last.ret = FALSE
        /\ stack = last.pre

C4_Witness ==
    /\ last.op = "pass"
    /\ last.player # last.pre.current_priority
    /\ stack.entries # <<>>
    /\ stack.consecutive_passes > 0

\* C5: an entry pushed by queue_action (non-empty batch) or respond is on
\* top, the pass count is zero, priority is with its controller, and process
\* does not resolve anything before a new full round of passes.
C5_PushResets ==
    (last.op \in {"queue_action", "respond"} /\ last.pushed) =>
        /\ Len(stack.entries) = Len(last.pre.entries) + 1
        /\ stack.entries[Len(stack.entries)].controller = last.player
        /\ stack.consecutive_passes = 0
        /\ stack.current_priority = last.player
        /\ passers = <<>>
        /\ process(stack, state, TestContext(stack.player_count)).resolved = NoEntry

C5_Witness ==
    /\ last.op = "respond"
    /\ last.pre.consecutive_passes >= 2
    /\ last.pre.current_priority # last.player

(***************************************************************************)
(* The game state under its mutators and the effect resolver: SpecState.   *)
(* Two players, an ordered deck zone, a hand zone and a discard zone, as   *)
(* in the resolver's tests.                                                *)
(***************************************************************************)
GamePlayers == 2
DeckZone == 0
HandZone == 1
DiscardZone == 2
Zones == {DeckZone, HandZone, DiscardZone}

MaxCards == 2           \* card instances added to a state
MaxHand == 1            \* cards add_to_hand puts in a private hand
MaxHandSize == MaxCards \* hand_sizes entries the resolver may still raise
MaxShuffles == 1        \* draws taken from the state's RNG

CardEntities == GamePlayers..(GamePlayers + MaxCards - 1)
FirstCard == first_non_player(GamePlayers)

\* the resolver contexts: deck and hand zone per player, the set of condition
\* keys that hold, the permutation the next shuffle draws
StateContexts ==
    {[TestContext(GamePlayers) EXCEPT !.eval_condition = c,
                                     !.draw = [rot |-> 1, rev |-> FALSE]] :
        c \in {{}, {"c"}}}

\* the batches resolved on the state
StateBatches ==
    {<<[effect |-> MoveCard(z, pos), targets |-> <<e>>]>> :
        z \in Zones, pos \in {PosNone, PosBottom}, e \in CardEntities}
    \cup {<<[effect |-> DrawCards(c, NoZone, NoZone), targets |-> <<p>>]>> :
        c \in 1..2, p \in PlayerIds(GamePlayers)}
    \cup {<<[effect |-> ShuffleZone(DeckZone), targets |-> <<>>]>>,
          <<[effect |-> Batch(<<SetPlayerState("life", 1),
                                DrawCards(1, NoZone, NoZone)>>),
             targets |-> <<0>>]>>,
          <<[effect |-> Conditional("c", MoveCard(DiscardZone, PosNone)),
             targets |-> <<FirstCard>>]>>,
          <<[effect |-> ShuffleZone(DiscardZone), targets |-> <<>>],
            [effect |-> MoveCard(HandZone, PosNone), targets |-> <<FirstCard>>]>>}

StateInit ==
    /\ state = GameState_new(GamePlayers, 0)
    /\ stack = PriorityStack_new(GamePlayers)
    /\ zm = ZoneManager_new
    /\ registry = TriggerRegistry_new
    /\ search = IdleSearch
    /\ last = NoCall
    /\ passers = <<>>
    /\ snapshots = <<>>
    /\ buffer = IdleBuffer
    /\ worker = IdleWorker

StateFrame == UNCHANGED <<stack, zm, registry, search, last, passers, snapshots, buffer, worker>>

\* state.zones.init_ordered_zone(zone), the set-up step of the tests
InitOrderedZone(zone) ==
    /\ state' = [state EXCEPT !.zones = init_ordered_zone(@, zone)]
    /\ StateFrame

\* add_card on an entity the zone manager does not track (it panics
\* otherwise); cards start in the deck
AddCard(entity, card_id, zone) ==
    /\ ~add_to_zone_panics(state.zones, entity)
    /\ state' = add_card(state, CardInstance_new(entity, card_id, 0, zone))
    /\ StateFrame

AddToHand(player, card_id) ==
    /\ Len(state.hands[player]) < MaxHand
    /\ state' = add_to_hand(state, player, card_id)
    /\ StateFrame

RemoveFromHand(player, card_id) ==
    /\ state' = remove_from_hand(state, player, card_id).st
    /\ StateFrame

SetDeck(player, deck) ==
    /\ state.decks[player] = <<>>
    /\ state' = set_deck(state, player, deck)
    /\ StateFrame

DrawCard(player) ==
    /\ Len(state.hands[player]) < MaxHand
    /\ state' = draw_card(state, player).st
    /\ StateFrame

Resolve(batch, context) ==
    /\ \A p \in PlayerIds(GamePlayers) : state.public.hand_sizes[p] < MaxHandSize
    /\ state.rng.word_pos < MaxShuffles
    /\ LET r == resolve_batch(state, batch, context)
       IN  state' = r.st
    /\ StateFrame

NextState ==
    \/ \E z \in {DeckZone, DiscardZone} : InitOrderedZone(z)
    \/ \E e \in CardEntities : AddCard(e, 1, DeckZone)
    \/ \E p \in PlayerIds(GamePlayers) : AddToHand(p, 1)
    \/ \E p \in PlayerIds(GamePlayers) : RemoveFromHand(p, 1)
    \/ SetDeck(0, <<1>>)
    \/ DrawCard(0)
    \/ \E b \in StateBatches : \E c \in StateContexts : Resolve(b, c)

SpecState == StateInit /\ [][NextState]_vars

\* the card side alone: zone set-up, add_card and effect resolution
NextCards ==
    \/ \E z \in {DeckZone, DiscardZone} : InitOrderedZone(z)
    \/ \E e \in CardEntities : AddCard(e, 1, DeckZone)
    \/ \E b \in StateBatches : \E c \in StateContexts : Resolve(b, c)

SpecCards == StateInit /\ [][NextCards]_vars

(***************************************************************************)
(* Properties of the game state.                                           *)
(***************************************************************************)
\* C6: after every mutation (add_to_hand, remove_from_hand, draw_card, any
\* effect resolution) hand_sizes[p] is the number of cards in the private
\* hand of p, for every player p.
C6_HandSizesMatch ==
    \A p \in PlayerIds(state.public.player_count) :
        state.public.hand_sizes[p] = Len(state.hands[p])

\* C7: after add_card and after every effect resolution, the zone field of
\* each card instance is the zone the zone manager records for its entity.
C7_CardZonesAgree ==
    \A e \in DOMAIN state.cards :
        /\ state.cards[e].entity_id = e
        /\ get_zone(state.zones, e) = state.cards[e].zone

\* cards enter in the deck: one has since been drawn and one moved out
C7_Witness ==
    \E e1, e2 \in DOMAIN state.cards :
        /\ state.cards[e1].zone = HandZone
        /\ state.cards[e2].zone = DiscardZone
        /\ state.public.hand_sizes[1] = 1

(***************************************************************************)
(* A zone manager on its own under its public methods: SpecZones.          *)
(***************************************************************************)
MaxZoneEntities == 2    \* entity ids 1..MaxZoneEntities
MaxZoneId == 2          \* zone ids 0..MaxZoneId

ZoneEntities == 1..MaxZoneEntities
ZoneIds == 0..MaxZoneId
ZonePositions == {PosNone, PosTop, PosBottom, PosIndex(1)}

\* history of SpecZones: the call, its result, and for move_to_zone the
\* entity and the zone asked for; added, pre: after add_to_zone the entity
\* added and the manager before the call, and the same after the remove of
\* that entity when it is the next call
ZoneCall(op, entity, zone, ret) ==
    [op |-> op, entity |-> entity, zone |-> zone, ret |-> ret,
     added |-> NoEntity, pre |-> ZoneManager_new]

ZonesInit ==
    /\ zm = ZoneManager_new
    /\ stack = PriorityStack_new(1)
    /\ state = GameState_new(1, 0)
    /\ registry = TriggerRegistry_new
    /\ search = IdleSearch
    /\ last = ZoneCall("none", NoEntity, NoZone, NoZone)
    /\ passers = <<>>
    /\ snapshots = <<>>
    /\ buffer = IdleBuffer
    /\ worker = IdleWorker

ZonesFrame == UNCHANGED <<stack, state, registry, search, passers, snapshots, buffer, worker>>

ZInitOrderedZone(zone) ==
    /\ zm' = init_ordered_zone(zm, zone)
    /\ last' = ZoneCall("init_ordered_zone", NoEntity, NoZone, NoZone)
    /\ ZonesFrame

\* add_to_zone panics on an entity that is already tracked
ZAddToZone(entity, zone, position) ==
    /\ ~add_to_zone_panics(zm, entity)
    /\ zm' = add_to_zone(zm, entity, zone, position)
    /\ last' = [ZoneCall("add_to_zone", NoEntity, NoZone, NoZone)
                EXCEPT !.added = entity, !.pre = zm]
    /\ ZonesFrame

ZMoveToZone(entity, zone, position) ==
    /\ LET r == move_to_zone(zm, entity, zone, position)
       IN  /\ zm' = r.zm
           /\ last' = ZoneCall("move_to_zone", entity, zone, r.ret)
    /\ ZonesFrame

ZRemove(entity) ==
    /\ LET r == remove(zm, entity)
       IN  /\ zm' = r.zm
           /\ last' = IF last.op = "add_to_zone" /\ last.added = entity
                       THEN [ZoneCall("remove", NoEntity, NoZone, r.ret)
                             EXCEPT !.added = entity, !.pre = last.pre]
                       ELSE ZoneCall("remove", NoEntity, NoZone, r.ret)
    /\ ZonesFrame

ZPopTop(zone) ==
    /\ LET r == pop_top(zm, zone)
       IN  /\ zm' = r.zm
           /\ last' = ZoneCall("pop_top", r.ret, NoZone, NoZone)
    /\ ZonesFrame

ZPopBottom(zone) ==
    /\ LET r == pop_bottom(zm, zone)
       IN  /\ zm' = r.zm
           /\ last' = ZoneCall("pop_bottom", r.ret, NoZone, NoZone)
    /\ ZonesFrame

NextZones ==
    \/ \E z \in ZoneIds : ZInitOrderedZone(z)
    \/ \E e \in ZoneEntities, z \in ZoneIds, pos \in ZonePositions : ZAddToZone(e, z, pos)
    \/ \E e \in ZoneEntities, z \in ZoneIds, pos \in ZonePositions : ZMoveToZone(e, z, pos)
    \/ \E e \in ZoneEntities : ZRemove(e)
    \/ \E z \in ZoneIds : ZPopTop(z)
    \/ \E z \in ZoneIds : ZPopBottom(z)

SpecZones == ZonesInit /\ [][NextZones]_vars

(***************************************************************************)
(* Properties of the zone manager.                                         *)
(***************************************************************************)
\* C8: after any sequence of init_ordered_zone, add_to_zone, move_to_zone,
\* remove, pop_top and pop_bottom, no entity is in the sequences of two
\* different ordered zones.
C8_NoEntityInTwoOrders ==
    \A z1, z2 \in DOMAIN zm.zone_order :
        z1 # z2 => Range(zm.zone_order[z1]) \cap Range(zm.zone_order[z2]) = {}

\* an entity has just moved from one ordered zone into another
C8_Witness ==
    /\ last.op = "move_to_zone"
    /\ last.ret \in DOMAIN zm.zone_order
    /\ last.zone \in DOMAIN zm.zone_order
    /\ last.ret # last.zone
    /\ last.entity \in Range(zm.zone_order[last.zone])
    /\ zm.zone_order[last.ret] # <<>>

(***************************************************************************)
(* The trigger registry under its public methods: SpecRegistry.            *)
(***************************************************************************)
MaxRegistryId == 2      \* trigger ids 0..MaxRegistryId, 0 asking for a fresh id
MaxBucket == 2          \* ids listed under one event type
MaxSources == 2         \* source entities 10, 20, ...

EventTypes == {1, 2}
Sources == {10 * i : i \in 1..MaxSources}

\* the triggers handed to register and register_with_id
TriggersToRegister ==
    {with_source(Trigger_new(id, t), src) :
        id \in 0..MaxRegistryId, t \in EventTypes, src \in Sources}
    \cup {also_on(with_source(Trigger_new(1, 1), src), 2) : src \in Sources}

\* every bucket a registration of the trigger appends to still has room
HasRoom(r, trigger) ==
    \A t \in Range(trigger.event_types) : Len(MapGet(r.by_event_type, t, <<>>)) < MaxBucket

\* history of SpecRegistry: the call, its source argument, and the ids of
\* the triggers that had that source when remove_for_source was called
RegistryCall(op, source, removed) == [op |-> op, source |-> source, removed |-> removed]

RegistryInit ==
    /\ registry = TriggerRegistry_new
    /\ stack = PriorityStack_new(1)
    /\ state = GameState_new(1, 0)
    /\ zm = ZoneManager_new
    /\ search = IdleSearch
    /\ last = RegistryCall("none", NoEntity, {})
    /\ passers = <<>>
    /\ snapshots = <<>>
    /\ buffer = IdleBuffer
    /\ worker = IdleWorker

RegistryFrame == UNCHANGED <<stack, state, zm, search, passers, snapshots, buffer, worker>>

Register(trigger) ==
    /\ HasRoom(registry, trigger)
    /\ trigger.id = 0 => registry.next_id <= MaxRegistryId
    /\ registry' = register(registry, trigger).reg
    /\ last' = RegistryCall("register", NoEntity, {})
    /\ RegistryFrame

RegisterWithId(trigger) ==
    /\ HasRoom(registry, trigger)
    /\ registry' = register_with_id(registry, trigger).reg
    /\ last' = RegistryCall("register_with_id", NoEntity, {})
    /\ RegistryFrame

Unregister(id) ==
    /\ registry' = unregister(registry, id).reg
    /\ last' = RegistryCall("unregister", NoEntity, {})
    /\ RegistryFrame

RemoveForSource(source) ==
    /\ registry' = remove_for_source(registry, source)
    /\ last' = RegistryCall("remove_for_source", source,
                             triggers_for_source(registry, source))
    /\ RegistryFrame

NextRegistry ==
    \/ \E t \in TriggersToRegister : Register(t)
    \/ \E t \in TriggersToRegister : RegisterWithId(t)
    \/ \E id \in 0..MaxRegistryId : Unregister(id)
    \/ \E src \in Sources : RemoveForSource(src)

SpecRegistry == RegistryInit /\ [][NextRegistry]_vars

(***************************************************************************)
(* Properties of the trigger registry.                                     *)
(***************************************************************************)
\* C9: after remove_for_source(e), whatever calls came before, no bucket of
\* the event-type index holds the id of a trigger that had source e, and no
\* trigger with source e is registered.
C9_RemoveForSourceHygiene ==
    last.op = "remove_for_source" =>
        /\ \A t \in DOMAIN registry.by_event_type :
              Range(registry.by_event_type[t]) \cap last.removed = {}
        /\ triggers_for_source(registry, last.source) = {}

(***************************************************************************)
(* MCTS: nodes and edges (mcts/node.rs), the arena (mcts/tree.rs), the     *)
(* policies (mcts/policy.rs) and the search loop (mcts/search.rs).         *)
(* Node ids are the 0-based indices of the arena; the arena itself is a    *)
(* sequence, so node id n is nodes[n + 1], and edge index i is             *)
(* edges[i + 1].  Rewards are counted in halves: 0.0, 0.5 and 1.0 are      *)
(* RewardZero, RewardHalf and RewardOne.                                   *)
(***************************************************************************)
NodeNone == -1
NoAction == -1
NoReward == <<>>
RewardZero == 0
RewardHalf == 1
RewardOne == 2

Edge_new(action, player_count) ==
    [action |-> action,
     child |-> NodeNone,
     visits |-> 0,
     total_reward |-> [p \in PlayerIds(player_count) |-> RewardZero]]

is_expanded(edge) == edge.child # NodeNone

MCTSNode_new(parent, parent_edge_idx, to_move, depth) ==
    [parent |-> parent,
     parent_edge_idx |-> parent_edge_idx,
     to_move |-> to_move,
     depth |-> depth,
     visits |-> 0,
     is_terminal |-> FALSE,
     terminal_reward |-> NoReward,
     edges |-> <<>>]

MCTSNode_root(to_move) == MCTSNode_new(NodeNone, 0, to_move, 0)

has_unexpanded(node) == \E i \in 1..Len(node.edges) : ~is_expanded(node.edges[i])

\* the edge indices of the unexpanded edges, in edge order
unexpanded_edges(node) ==
    SelectSeq([i \in 1..Len(node.edges) |-> i - 1],
              LAMBDA i : ~is_expanded(node.edges[i + 1]))

\* Iterator::max_by_key returns the last of several maximal elements
best_edge_by_visits(node) ==
    IF node.edges = <<>>
    THEN NoAction
    ELSE node.edges[CHOOSE i \in 1..Len(node.edges) :
                        /\ \A j \in 1..Len(node.edges) : node.edges[j].visits <= node.edges[i].visits
                        /\ \A j \in (i + 1)..Len(node.edges) : node.edges[j].visits < node.edges[i].visits].action

MCTSTree_new(root_player, player_count) ==
    [nodes |-> <<MCTSNode_root(root_player)>>, root |-> 0, player_count |-> player_count]

get(t, id) == t.nodes[id + 1]

root_node(t) == get(t, t.root)

\* alloc(&mut self, node): the id handed out is the length before the push
alloc(t, node) == [t EXCEPT !.nodes = Append(@, node)]

reset(t, root_player) ==
    [t EXCEPT !.nodes = <<MCTSNode_root(root_player)>>, !.root = 0]

(***************************************************************************)
(* The rules engine is the one of the search tests: TestEngine offers      *)
(* templates 0..action_count-1 at every turn, every action adds one to     *)
(* turn_number and hands the turn to the next player, and the game is won  *)
(* by player 0 from turn terminal_at on (NoLimit: never).  With            *)
(* last_action_turn set, no action is legal after that turn, as in         *)
(* TwoMoveGame's legal_templates.                                          *)
(***************************************************************************)
NoLimit == 0

Winner(p) == [type |-> "Winner", winner |-> p]
Draw == [type |-> "Draw", winner |-> NoPlayer]
NotTerminal == [type |-> "None", winner |-> NoPlayer]

is_terminal(engine, st) ==
    IF engine.terminal_at # NoLimit /\ st.public.turn_number >= engine.terminal_at
    THEN Winner(0)
    ELSE NotTerminal

legal_actions(engine, st, player) ==
    IF engine.last_action_turn = NoLimit \/ st.public.turn_number <= engine.last_action_turn
    THEN [i \in 1..engine.action_count |-> i - 1]
    ELSE <<>>

apply_action(engine, st, player, action) ==
    [st EXCEPT !.public.turn_number = @ + 1,
               !.public.active_player = (@ + 1) % engine.player_count]

result_to_rewards(result, player_count) ==
    [p \in PlayerIds(player_count) |->
        IF result.type = "Winner"
        THEN IF result.winner = p THEN RewardOne ELSE RewardZero
        ELSE RewardHalf]

with_value(player_count, value) == [p \in PlayerIds(player_count) |-> value]

\* lives[p] / total in halves; exact whenever total divides 2 * lives[p]
heuristic_eval(st, player_count) ==
    IF SumSeq([i \in 1..player_count |-> Max(get_player_state(st, i - 1, "life", 0), 0)]) <= 0
    THEN with_value(player_count, RewardHalf)
    ELSE [p \in PlayerIds(player_count) |->
            (RewardOne * Max(get_player_state(st, p, "life", 0), 0))
            \div SumSeq([i \in 1..player_count |-> Max(get_player_state(st, i - 1, "life", 0), 0)])]

\* RandomSimulation::simulate.  Which legal action the RNG picks does not
\* change the state apply_action produces, so the first one is applied.
RECURSIVE random_simulate(_, _, _, _)
random_simulate(engine, st, max_depth, depth) ==
    IF is_terminal(engine, st).type # "None"
    THEN result_to_rewards(is_terminal(engine, st), st.public.player_count)
    ELSE IF max_depth > 0 /\ depth >= max_depth
    THEN heuristic_eval(st, st.public.player_count)
    ELSE IF legal_actions(engine, st, st.public.active_player) = <<>>
    THEN with_value(st.public.player_count, RewardHalf)
    ELSE random_simulate(engine,
                         apply_action(engine, st, st.public.active_player,
                                      legal_actions(engine, st, st.public.active_player)[1]),
                         max_depth, depth + 1)

(***************************************************************************)
(* MCTSSearch (mcts/search.rs).  A search is the record                    *)
(* [engine, config, tree, stats] of the struct together with the locals    *)
(* of search(): player, remaining (iterations of the loop still to run),   *)
(* result, pc (where search() stands), and path and rewards, the           *)
(* arguments of the last call of backpropagate in the current iteration.   *)
(* The values the RNG yields are given by an oracle: oracle[k] is the      *)
(* draw of the k-th turn of the selection loop.                            *)
(***************************************************************************)
DefaultMaxNodes == 100000

\* MCTSConfig (mcts/config.rs): the fields the search loop reads
MCTSConfig_default == [max_depth |-> 0, max_nodes |-> DefaultMaxNodes, temperature |-> 0]

with_max_depth(config, depth) == [config EXCEPT !.max_depth = depth]

with_temperature(config, temp) == [config EXCEPT !.temperature = temp]

SearchStats_default ==
    [iterations |-> 0, nodes_expanded |-> 0, simulations |-> 0, max_depth |-> 0]

MCTSSearch_new(engine, config) ==
    [engine |-> engine,
     config |-> config,
     tree |-> MCTSTree_new(0, engine.player_count),
     stats |-> SearchStats_default,
     player |-> NoPlayer,
     remaining |-> 0,
     result |-> NoAction,
     path |-> <<>>,
     rewards |-> NoReward,
     pc |-> "idle"]

expand_node(S, node_id, st) ==
    IF is_terminal(S.engine, st).type # "None"
    THEN [S EXCEPT !.tree.nodes[node_id + 1].is_terminal = TRUE,
                   !.tree.nodes[node_id + 1].terminal_reward =
                        result_to_rewards(is_terminal(S.engine, st), S.tree.player_count)]
    ELSE [S EXCEPT !.tree.nodes[node_id + 1].edges =
                        @ \o [i \in 1..Len(legal_actions(S.engine, st, get(S.tree, node_id).to_move)) |->
                                Edge_new(legal_actions(S.engine, st, get(S.tree, node_id).to_move)[i],
                                         S.tree.player_count)],
                   !.stats.nodes_expanded = @ + 1]

\* the draw of this turn of the selection loop, reduced to 0..n-1
gen_range_usize(oracle, path, n) == oracle[Len(path) + 1] % n

select_unexpanded(S, node_id, oracle, path) ==
    IF unexpanded_edges(get(S.tree, node_id)) = <<>>
    THEN 0
    ELSE IF Len(unexpanded_edges(get(S.tree, node_id))) = 1
    THEN unexpanded_edges(get(S.tree, node_id))[1]
    ELSE unexpanded_edges(get(S.tree, node_id))[
            gen_range_usize(oracle, path, Len(unexpanded_edges(get(S.tree, node_id)))) + 1]

\* an expand_child that hands MCTSNode::new its first two arguments in the
\* wrong order
expand_child_swapped(S, parent_id, edge_idx, st) ==
    expand_node(
        [S EXCEPT !.stats.max_depth = Max(@, get(S.tree, parent_id).depth + 1),
                  !.tree = [alloc(S.tree, MCTSNode_new(edge_idx, parent_id, st.public.active_player,
                                                       get(S.tree, parent_id).depth + 1))
                               EXCEPT !.nodes[parent_id + 1].edges[edge_idx + 1].child = Len(S.tree.nodes)]],
        Len(S.tree.nodes), st)

\* the child's id is the arena length before the alloc
expand_child(S, parent_id, edge_idx, st) ==
    expand_node(
        [S EXCEPT !.stats.max_depth = Max(@, get(S.tree, parent_id).depth + 1),
                  !.tree = [alloc(S.tree, MCTSNode_new(parent_id, edge_idx, st.public.active_player,
                                                       get(S.tree, parent_id).depth + 1))
                               EXCEPT !.nodes[parent_id + 1].edges[edge_idx + 1].child = Len(S.tree.nodes)]],
        Len(S.tree.nodes), st)

ensure_child(S, parent_id, edge_idx, st) ==
    IF get(S.tree, parent_id).edges[edge_idx + 1].child # NodeNone
    THEN S
    ELSE expand_child(S, parent_id, edge_idx, st)

\* the index find_or_create_edge returns: the first edge with the action,
\* else the index of the edge it pushes
edge_position(node, action) ==
    IF \E i \in 1..Len(node.edges) : node.edges[i].action = action
    THEN (CHOOSE i \in 1..Len(node.edges) :
            /\ node.edges[i].action = action
            /\ \A j \in 1..(i - 1) : node.edges[j].action # action) - 1
    ELSE Len(node.edges)

find_or_create_edge(S, node_id, action) ==
    IF \E i \in 1..Len(get(S.tree, node_id).edges) : get(S.tree, node_id).edges[i].action = action
    THEN S
    ELSE [S EXCEPT !.tree.nodes[node_id + 1].edges = Append(@, Edge_new(action, S.tree.player_count))]

\* UniformOpponent::choose_action
sample_opponent_action(S, st, opponent, oracle, path) ==
    IF legal_actions(S.engine, st, opponent) = <<>>
    THEN NoAction
    ELSE legal_actions(S.engine, st, opponent)[
            gen_range_usize(oracle, path, Len(legal_actions(S.engine, st, opponent))) + 1]

simulate(S, st) == random_simulate(S.engine, st, S.config.max_depth, 0)

\* faulty variant of one turn of the loop: the reward of every player but
\* the one to move at the node is subtracted, as in a negamax backup
backpropagate_edge_negated(t, node_id, edge_idx, rewards) ==
    [t EXCEPT !.nodes[node_id + 1].visits = @ + 1,
              !.nodes[node_id + 1].edges[edge_idx + 1].visits = @ + 1,
              !.nodes[node_id + 1].edges[edge_idx + 1].total_reward =
                    [p \in DOMAIN @ |->
                        IF p = t.nodes[node_id + 1].to_move
                        THEN @[p] + rewards[p]
                        ELSE @[p] - rewards[p]]]

\* one turn of the loop of backpropagate
backpropagate_edge(t, node_id, edge_idx, rewards) ==
    [t EXCEPT !.nodes[node_id + 1].visits = @ + 1,
              !.nodes[node_id + 1].edges[edge_idx + 1].visits = @ + 1,
              !.nodes[node_id + 1].edges[edge_idx + 1].total_reward =
                    [p \in DOMAIN @ |-> @[p] + rewards[p]]]

\* path[lo..i], last element first
RECURSIVE backpropagate_path(_, _, _, _, _)
backpropagate_path(t, path, lo, i, rewards) ==
    IF i < lo
    THEN t
    ELSE backpropagate_path(backpropagate_edge(t, path[i][1], path[i][2], rewards),
                            path, lo, i - 1, rewards)

\* a backpropagate that leaves the first element of the path to the
\* "update root visits" line
backpropagate_below_root(S, path, rewards) ==
    [S EXCEPT !.tree = [backpropagate_path(S.tree, path, 2, Len(path), rewards)
                            EXCEPT !.nodes[S.tree.root + 1].visits = @ + 1],
              !.path = path,
              !.rewards = rewards]

backpropagate(S, path, rewards) ==
    [S EXCEPT !.tree = [backpropagate_path(S.tree, path, 1, Len(path), rewards)
                            EXCEPT !.nodes[S.tree.root + 1].visits = @ + 1],
              !.path = path,
              !.rewards = rewards]

RECURSIVE iteration_loop(_, _, _, _, _, _)

\* "current = child; continue" with the child of the edge just taken
iteration_descend(S, st, searching_player, path, current, edge_idx, oracle) ==
    iteration_loop(S, st, searching_player, path,
                   get(S.tree, current).edges[edge_idx + 1].child, oracle)

\* apply the edge's action, expand its child, simulate and back up
expand_and_simulate(S, st, path, current, edge_idx) ==
    backpropagate(
        [expand_child(S, current, edge_idx,
                      apply_action(S.engine, st, get(S.tree, current).to_move,
                                   get(S.tree, current).edges[edge_idx + 1].action))
            EXCEPT !.stats.simulations = @ + 1],
        Append(path, <<current, edge_idx>>),
        simulate(S, apply_action(S.engine, st, get(S.tree, current).to_move,
                                 get(S.tree, current).edges[edge_idx + 1].action)))

\* the branch of a node that is not the searching player's, with the
\* action the opponent policy sampled
opponent_turn(S, st, searching_player, path, current, oracle, action) ==
    iteration_descend(
        ensure_child(find_or_create_edge(S, current, action), current,
                     edge_position(get(S.tree, current), action),
                     apply_action(S.engine, st, get(S.tree, current).to_move, action)),
        apply_action(S.engine, st, get(S.tree, current).to_move, action),
        searching_player,
        Append(path, <<current, edge_position(get(S.tree, current), action)>>),
        current,
        edge_position(get(S.tree, current), action),
        oracle)

\* SelectionPolicy::select.  UCB1 returns 0 for a node without edges and
\* otherwise the index of an edge of maximal score; the score is a float
\* expression (mean reward plus c * sqrt(ln N / n)) that is not evaluated
\* here: every index of an edge is a possible answer.
select(node, oracle, path) ==
    IF node.edges = <<>>
    THEN 0
    ELSE gen_range_usize(oracle, path, Len(node.edges))

\* the branch "all edges expanded - select best"; indexing edges[edge_idx]
\* of a node without edges panics
selected_turn(S, st, searching_player, path, current, oracle, edge_idx) ==
    IF edge_idx >= Len(get(S.tree, current).edges)
    THEN [S EXCEPT !.pc = "panicked"]
    ELSE IF get(S.tree, current).edges[edge_idx + 1].child = NodeNone
    THEN expand_and_simulate(S, st, path, current, edge_idx)
    ELSE iteration_descend(
            S,
            apply_action(S.engine, st, get(S.tree, current).to_move,
                         get(S.tree, current).edges[edge_idx + 1].action),
            searching_player,
            Append(path, <<current, edge_idx>>),
            current, edge_idx, oracle)

iteration_loop(S, st, searching_player, path, current, oracle) ==
    IF get(S.tree, current).is_terminal
    THEN IF get(S.tree, current).terminal_reward # NoReward
         THEN backpropagate(S, path, get(S.tree, current).terminal_reward)
         ELSE S
    ELSE IF S.config.max_depth > 0 /\ get(S.tree, current).depth >= S.config.max_depth
    THEN backpropagate(S, path, heuristic_eval(st, S.tree.player_count))
    ELSE IF get(S.tree, current).to_move # searching_player
    THEN IF sample_opponent_action(S, st, get(S.tree, current).to_move, oracle, path) # NoAction
         THEN opponent_turn(S, st, searching_player, path, current, oracle,
                            sample_opponent_action(S, st, get(S.tree, current).to_move, oracle, path))
         ELSE backpropagate(S, path, with_value(S.tree.player_count, RewardHalf))
    ELSE IF has_unexpanded(get(S.tree, current))
    THEN expand_and_simulate(S, st, path, current, select_unexpanded(S, current, oracle, path))
    ELSE selected_turn(S, st, searching_player, path, current, oracle,
                       select(get(S.tree, current), oracle, path))

iteration(S, st, searching_player, oracle) ==
    iteration_loop([S EXCEPT !.path = <<>>, !.rewards = NoReward],
                   st, searching_player, <<>>, S.tree.root, oracle)

\* search() up to the iteration loop: reset, expand the root, early returns
search_entry(S) ==
    IF root_node(S.tree).is_terminal
    THEN [S EXCEPT !.pc = "done", !.result = NoAction]
    ELSE IF Len(root_node(S.tree).edges) = 1
    THEN [S EXCEPT !.pc = "done", !.result = root_node(S.tree).edges[1].action]
    ELSE IF S.remaining = 0
    THEN [S EXCEPT !.pc = "best_action"]
    ELSE [S EXCEPT !.pc = "iterating"]

search_start(S, st, player, iterations) ==
    search_entry(
        expand_node([S EXCEPT !.stats = SearchStats_default,
                              !.tree = reset(@, st.public.active_player),
                              !.player = player,
                              !.remaining = iterations,
                              !.result = NoAction,
                              !.path = <<>>,
                              !.rewards = NoReward],
                    0, st))

\* the rest of the loop body after iteration(): count it, check the node
\* limit, go round again or leave the loop
iteration_end(S) ==
    IF S.pc = "panicked"
    THEN S
    ELSE [S EXCEPT !.stats.iterations = @ + 1,
                   !.remaining = @ - 1,
                   !.pc = IF Len(S.tree.nodes) >= S.config.max_nodes \/ S.remaining = 1
                          THEN "best_action"
                          ELSE "iterating"]

\* the actions best_action may return: the most visited edge's when the
\* temperature is not positive, else any edge's, exp(v / temperature)
\* being a positive weight
best_action(S) ==
    IF root_node(S.tree).edges = <<>>
    THEN {NoAction}
    ELSE IF S.config.temperature <= 0
    THEN {best_edge_by_visits(root_node(S.tree))}
    ELSE {root_node(S.tree).edges[i].action : i \in 1..Len(root_node(S.tree).edges)}

(***************************************************************************)
(* A search driven by a caller: SpecMcts.                                  *)
(***************************************************************************)
MaxIterations == 3      \* iterations asked of one search, 0..MaxIterations
MaxActions == 2         \* action_count of the engine, 0..MaxActions
MaxTurn == 3            \* terminal_at, last_action_turn and max_depth stay within it
MaxNodes == 2           \* max_nodes of the config with a small node limit
MaxForks == MaxIterations   \* clones of the caller's state in one behaviour
SearchPlayers == 2      \* TestEngine::new(2), GameState::new(2, 42)
SearchSeed == 42

\* TestEngine, with terminal_after(1..MaxTurn) or without
TestEngines ==
    [player_count : {SearchPlayers},
     terminal_at : {NoLimit} \cup 1..MaxTurn,
     action_count : 0..MaxActions,
     last_action_turn : {NoLimit}]

\* an engine whose players run out of actions before the game has ended
MoveLimitedEngines ==
    [player_count : {SearchPlayers},
     terminal_at : {NoLimit},
     action_count : 1..MaxActions,
     last_action_turn : {MaxTurn - 1}]

Engines == TestEngines \cup MoveLimitedEngines

Configs ==
    {MCTSConfig_default,
     with_max_depth(MCTSConfig_default, MaxTurn - 1),
     [MCTSConfig_default EXCEPT !.max_nodes = MaxNodes],
     with_temperature(MCTSConfig_default, 1)}

\* every playout ends: the game does, or the depth limit cuts it
Terminates(engine, config) ==
    \/ engine.terminal_at # NoLimit
    \/ engine.last_action_turn # NoLimit
    \/ engine.action_count = 0
    \/ config.max_depth > 0

\* one draw for each turn of the selection loop that draws: the nodes at
\* depth MaxTurn - 1 are terminal, at the depth limit or without actions
Oracles == [1..(MaxTurn - 1) -> 0..(Max(MaxActions, 1) - 1)]

\* history of SpecMcts: the call, the number of iterations of the current
\* search that handed backpropagate a path with a root edge, and the game
\* state of the caller when the current search was called
SearchCall(op, root_paths) ==
    [op |-> op, root_paths |-> root_paths,
     caller |-> IF op = "new" THEN GameState_new(SearchPlayers, SearchSeed)
                ELSE IF op = "search" THEN state
                ELSE last.caller]

McInit ==
    /\ \E engine \in Engines, config \in Configs :
          /\ Terminates(engine, config)
          /\ search = MCTSSearch_new(engine, config)
    /\ state = GameState_new(SearchPlayers, SearchSeed)
    /\ stack = PriorityStack_new(1)
    /\ zm = ZoneManager_new
    /\ registry = TriggerRegistry_new
    /\ last = SearchCall("new", 0)
    /\ passers = <<>>
    /\ snapshots = <<>>
    /\ buffer = IdleBuffer
    /\ worker = IdleWorker

McFrame == UNCHANGED <<stack, zm, registry, passers, snapshots, buffer, worker>>

Search(player, iterations) ==
    /\ search.pc \in {"idle", "done"}
    /\ state.rng.fork_counter + iterations <= MaxForks
    /\ search' = search_start(search, state, player, iterations)
    /\ last' = SearchCall("search", 0)
    /\ UNCHANGED state
    /\ McFrame

Iteration ==
    /\ search.pc = "iterating"
    /\ \E oracle \in Oracles :
          search' = iteration_end(iteration(search, clone_state(state).clone,
                                            search.player, oracle))
    /\ state' = clone_state(state).source
    /\ last' = SearchCall("iteration",
                          IF search'.path # <<>> /\ search'.path[1][1] = search'.tree.root
                          THEN last.root_paths + 1
                          ELSE last.root_paths)
    /\ McFrame

BestAction ==
    /\ search.pc = "best_action"
    /\ \E action \in best_action(search) :
          search' = [search EXCEPT !.pc = "done", !.result = action]
    /\ last' = [last EXCEPT !.op = "best_action"]
    /\ UNCHANGED state
    /\ McFrame

NextMcts ==
    \/ \E player \in PlayerIds(SearchPlayers), iterations \in 0..MaxIterations :
          Search(player, iterations)
    \/ Iteration
    \/ BestAction

SpecMcts == McInit /\ [][NextMcts]_vars

(***************************************************************************)
(* Properties of the search.                                               *)
(***************************************************************************)
RootEdgeVisits ==
    SumSeq([i \in 1..Len(root_node(search.tree).edges) |->
                root_node(search.tree).edges[i].visits])

\* C10: between iterations and after the search, the visits of the root's
\* edges add up to the number of iterations of this search whose path went
\* through a root edge: each of them added one visit to one root edge.
C10_RootEdgeVisits ==
    search.pc \in {"iterating", "best_action", "done"} =>
        RootEdgeVisits = last.root_paths

\* three iterations went through root edges, and more than one root edge
\* has been visited
C10_Witness ==
    /\ search.pc = "done"
    /\ search.stats.iterations = 3
    /\ last.root_paths = 3
    /\ RootEdgeVisits = 3
    /\ \E i, j \in 1..Len(root_node(search.tree).edges) :
          /\ i # j
          /\ root_node(search.tree).edges[i].visits > 0
          /\ root_node(search.tree).edges[j].visits > 0

\* every expanded edge leads to an allocated node that points back at it
TreeLinked ==
    \A n \in 1..Len(search.tree.nodes) :
        \A e \in 1..Len(search.tree.nodes[n].edges) :
            search.tree.nodes[n].edges[e].child # NodeNone =>
                /\ search.tree.nodes[n].edges[e].child \in 0..(Len(search.tree.nodes) - 1)
                /\ get(search.tree, search.tree.nodes[n].edges[e].child).parent = n - 1
                /\ get(search.tree, search.tree.nodes[n].edges[e].child).parent_edge_idx = e - 1

\* a step keeps every node id of the arena: the id still names a node, and
\* the same one
NodeIdsKept ==
    /\ Len(search'.tree.nodes) >= Len(search.tree.nodes)
    /\ \A n \in 1..Len(search.tree.nodes) :
          /\ search'.tree.nodes[n].parent = search.tree.nodes[n].parent
          /\ search'.tree.nodes[n].parent_edge_idx = search.tree.nodes[n].parent_edge_idx
          /\ search'.tree.nodes[n].to_move = search.tree.nodes[n].to_move
          /\ search'.tree.nodes[n].depth = search.tree.nodes[n].depth

MaxRegistrations == 3   \* ids in the bucket of the event type
TriggerPriorities == {0, 1}         \* Trigger::new gives 0, with_priority(1)
MaxFlushed == MaxRegistrations      \* stack entries pushed in one behaviour
TriggerPlayers == 2     \* PriorityStack::new(2)
FiredEvent == 1         \* DAMAGE_DEALT

\* the triggers handed to register and register_with_id: id 0 or an id of
\* the caller's, some priority, one effect, controlled by player 0
\* Triggers are registered between events, while nothing is on the stack.
TriggersToFire ==
    {trigger_with_priority(
        with_effect(with_controller(Trigger_new(id, FiredEvent), 0),
                    SetPlayerState("counter", 1)),
        priority) :
        id \in 0..(MaxRegistrations - 1), priority \in TriggerPriorities}

\* history of SpecTriggers.  order: the registered ids, latest registration
\* last; auto: the ids whose registration took the id from next_id; fired:
\* for each trigger of the batch queued last, its priority, its place in
\* order and whether its id was automatic, as they were when it was queued;
\* flushed: the trigger ids of the entries the last flush pushed, in push
\* order; resolved: the trigger ids resolved since, in order
TriggerCall(op, order, auto, fired, flushed, resolved) ==
    [op |-> op, order |-> order, auto |-> auto, fired |-> fired,
     flushed |-> flushed, resolved |-> resolved]

TriggersInit ==
    /\ registry = TriggerRegistry_new
    /\ stack = PriorityStack_new(TriggerPlayers)
    /\ state = GameState_new(TriggerPlayers, 0)
    /\ zm = ZoneManager_new
    /\ search = IdleSearch
    /\ last = TriggerCall("new", <<>>, {}, EmptyMap, <<>>, <<>>)
    /\ passers = <<>>
    /\ snapshots = <<>>
    /\ buffer = IdleBuffer
    /\ worker = IdleWorker

TriggersFrame == UNCHANGED <<zm, search, passers, snapshots, buffer, worker>>

TgRegister(trigger) ==
    /\ is_complete(stack)
    /\ Len(MapGet(registry.by_event_type, FiredEvent, <<>>)) < MaxRegistrations
    /\ registry' = register(registry, trigger).reg
    /\ last' = [last EXCEPT
                  !.op = "register",
                  !.order = Append(Retain(@, register(registry, trigger).ret),
                                   register(registry, trigger).ret),
                  !.auto = IF trigger.id = 0
                           THEN @ \cup {register(registry, trigger).ret}
                           ELSE @ \ {register(registry, trigger).ret}]
    /\ UNCHANGED <<stack, state>>
    /\ TriggersFrame

TgRegisterWithId(trigger) ==
    /\ is_complete(stack)
    /\ Len(MapGet(registry.by_event_type, FiredEvent, <<>>)) < MaxRegistrations
    /\ registry' = register_with_id(registry, trigger).reg
    /\ last' = [last EXCEPT
                  !.op = "register_with_id",
                  !.order = Append(Retain(@, trigger.id), trigger.id),
                  !.auto = @ \ {trigger.id}]
    /\ UNCHANGED <<stack, state>>
    /\ TriggersFrame

\* for t in find_triggers(..) { stack.queue_triggered(t) }
RECURSIVE queue_all(_, _)
queue_all(ps, found) ==
    IF found = <<>>
    THEN ps
    ELSE queue_all(queue_triggered(ps, Head(found)), Tail(found))

Fire ==
    /\ is_complete(stack)
    /\ find_triggers(registry, FiredEvent, After) # <<>>
    /\ stack.next_id + Len(find_triggers(registry, FiredEvent, After)) <= MaxFlushed
    /\ stack' = queue_all(stack, find_triggers(registry, FiredEvent, After))
    /\ last' = [last EXCEPT
                  !.op = "fire",
                  !.fired = [id \in Range(firing_ids(registry, FiredEvent, After)) |->
                                [priority |-> registry.triggers[id].priority,
                                 registered |-> FirstIndex(last.order, id),
                                 auto |-> id \in last.auto]],
                  !.flushed = <<>>,
                  !.resolved = <<>>]
    /\ UNCHANGED <<registry, state>>
    /\ TriggersFrame

TgPass ==
    /\ stack.entries # <<>>
    /\ stack.consecutive_passes < stack.player_count
    /\ stack' = pass(stack, stack.current_priority).ps
    /\ last' = [last EXCEPT !.op = "pass"]
    /\ UNCHANGED <<registry, state>>
    /\ TriggersFrame

TgProcess ==
    /\ ~is_complete(stack)
    /\ stack' = process(stack, state, TestContext(TriggerPlayers)).ps
    /\ state' = process(stack, state, TestContext(TriggerPlayers)).st
    /\ last' = [last EXCEPT
                  !.op = IF stack.pending_triggers # <<>> THEN "flush" ELSE "process",
                  !.flushed = IF stack.pending_triggers # <<>>
                              THEN [i \in 1..(Len(stack'.entries) - Len(stack.entries)) |->
                                        stack'.entries[Len(stack.entries) + i].source.trigger_id]
                              ELSE @,
                  !.resolved = IF process(stack, state, TestContext(TriggerPlayers)).resolved # NoEntry
                               THEN Append(@, process(stack, state, TestContext(TriggerPlayers)).resolved.source.trigger_id)
                               ELSE @]
    /\ UNCHANGED registry
    /\ TriggersFrame

NextTriggers ==
    \/ \E t \in TriggersToFire : TgRegister(t)
    \/ \E t \in TriggersToFire : TgRegisterWithId(t)
    \/ Fire
    \/ TgPass
    \/ TgProcess

SpecTriggers == TriggersInit /\ [][NextTriggers]_vars

(***************************************************************************)
(* Properties of triggers flushed onto the stack.                          *)
(***************************************************************************)
\* C12 as stated: the triggered effects flushed together are pushed in the
\* order in which their triggers were registered.
C12_RegistrationOrder ==
    \A i, j \in 1..Len(last.flushed) :
        i < j => last.fired[last.flushed[i]].registered <= last.fired[last.flushed[j]].registered

\* C12, amended: the triggered effects flushed together are pushed in
\* ascending order of trigger id, so the one with the largest id ends up on
\* top and they resolve in descending order of trigger id; among triggers
\* whose ids register assigned from its counter this is registration order.
C12_TriggerIdOrder ==
    /\ \A i, j \in 1..Len(last.flushed) :
          i < j =>
            /\ last.flushed[i] <= last.flushed[j]
            /\ (last.fired[last.flushed[i]].auto /\ last.fired[last.flushed[j]].auto)
                  => last.fired[last.flushed[i]].registered <= last.fired[last.flushed[j]].registered
    /\ last.op = "flush" =>
          stack.entries[Len(stack.entries)].source.trigger_id = last.flushed[Len(last.flushed)]
    /\ Len(last.resolved) <= Len(last.flushed)
    /\ \A k \in 1..Len(last.resolved) :
          last.resolved[k] = last.flushed[Len(last.flushed) + 1 - k]

\* two triggers with ids from the counter were flushed together and both
\* have resolved, the one registered last first
C12_Witness ==
    /\ Len(last.resolved) >= 2
    /\ last.resolved[1] # last.resolved[2]
    /\ last.fired[last.resolved[1]].auto
    /\ last.fired[last.resolved[2]].auto
    /\ last.fired[last.resolved[1]].registered > last.fired[last.resolved[2]].registered

\* C13: of two triggered effects flushed together, the one whose trigger has
\* the higher priority resolves before the one whose trigger has the lower
\* priority.
C13_PriorityOrder ==
    \A i, j \in 1..Len(last.resolved) :
        i < j => last.fired[last.resolved[i]].priority >= last.fired[last.resolved[j]].priority

(***************************************************************************)
(* ImmediateResolution (stack/immediate.rs): [pending], a sequence of      *)
(* PendingEffect records [effects, controller].  In SpecImmediate the      *)
(* variable stack holds the resolution system, an ImmediateResolution.     *)
(***************************************************************************)
ImmediateResolution_new == [pending |-> <<>>]

pending_count(ir) == Len(ir.pending)

immediate_queue_action(ir, effects, controller) ==
    IF effects # <<>>
    THEN [ir EXCEPT !.pending = Append(@, [effects |-> effects, controller |-> controller])]
    ELSE ir

immediate_queue_triggered(ir, triggered) ==
    IF triggered.effects # <<>>
    THEN [ir EXCEPT !.pending =
            Append(@, [effects |-> triggered_batch(triggered),
                       controller |-> IF triggered.controller # NoPlayer
                                      THEN triggered.controller
                                      ELSE 0])]
    ELSE ir

\* while let Some(pending) = self.pending.pop() { resolve_batch(..) }; order
\* collects the places in the queue of the entries resolved, first resolved
\* first
RECURSIVE immediate_drain(_, _, _, _)
immediate_drain(pending, st, context, order) ==
    IF pending = <<>>
    THEN [pending |-> pending, st |-> st, order |-> order]
    ELSE immediate_drain(VecInit(pending),
                         resolve_batch(st, pending[Len(pending)].effects, context).st,
                         context,
                         Append(order, Len(pending)))

\* faulty variant of process: if let in place of while let
immediate_process_once(ir, st, context) ==
    IF ir.pending = <<>>
    THEN [ir |-> ir, st |-> st, order |-> <<>>, status |-> Complete]
    ELSE [ir |-> [ir EXCEPT !.pending = VecInit(@)],
          st |-> resolve_batch(st, ir.pending[Len(ir.pending)].effects, context).st,
          order |-> <<Len(ir.pending)>>,
          status |-> Complete]

immediate_drained(ir, drained) ==
    [ir |-> [ir EXCEPT !.pending = drained.pending],
     st |-> drained.st,
     order |-> drained.order,
     status |-> Complete]

immediate_process(ir, st, context) ==
    immediate_drained(ir, immediate_drain(ir.pending, st, context, <<>>))

immediate_is_complete(ir) == ir.pending = <<>>

immediate_priority_player(ir) == NoPlayer

immediate_clear(ir) == [ir EXCEPT !.pending = <<>>]

(***************************************************************************)
(* The immediate resolver driven by a game: SpecImmediate.                  *)
(***************************************************************************)
MaxPending == 3         \* entries queued in one behaviour
ImmediatePlayers == 2   \* GameState::new(2, 42)

\* the batches of queue_action: none, damage 1 or 2 to player 1 (the batches
\* of test_immediate_multiple_effects), or a mark left on player 0
ImmediateBatches ==
    {<<>>}
    \cup {<<[effect |-> ModifyPlayerState("life", -amount), targets |-> <<1>>]>> :
            amount \in 1..2}
    \cup {<<[effect |-> SetPlayerState("mark", value), targets |-> <<0>>]>> :
            value \in 1..2}

\* the triggered effects of queue_triggered: damage 1 to the controller,
\* player 1 or nobody, or no effect at all
ImmediateTriggered ==
    {[trigger_id |-> 1, controller |-> c, effects |-> <<ModifyPlayerState("life", -1)>>] :
        c \in {1, NoPlayer}}
    \cup {[trigger_id |-> 1, controller |-> 1, effects |-> <<>>]}

\* history of SpecImmediate.  by: who queued each pending entry; queued: the
\* entries queued so far; pre, before: the pending queue and the game state
\* at the last process call; order: the places in pre of the entries that
\* call resolved, first resolved first; status: what it returned
ImmediateCall(op, by, queued, pre, before, order, status) ==
    [op |-> op, by |-> by, queued |-> queued, pre |-> pre, before |-> before,
     order |-> order, status |-> status]

ImmediateInit ==
    /\ stack = ImmediateResolution_new
    /\ state = GameState_new(ImmediatePlayers, 0)
    /\ zm = ZoneManager_new
    /\ registry = TriggerRegistry_new
    /\ search = IdleSearch
    /\ last = ImmediateCall("new", <<>>, 0, <<>>, GameState_new(ImmediatePlayers, 0),
                            <<>>, Complete)
    /\ passers = <<>>
    /\ snapshots = <<>>
    /\ buffer = IdleBuffer
    /\ worker = IdleWorker

ImmediateFrame == UNCHANGED <<zm, registry, search, passers, snapshots, buffer, worker>>

ImQueueAction(controller, effects) ==
    /\ last.queued < MaxPending
    /\ stack' = immediate_queue_action(stack, effects, controller)
    /\ last' = [last EXCEPT
                  !.op = "queue_action",
                  !.by = IF effects # <<>> THEN Append(@, "action") ELSE @,
                  !.queued = IF effects # <<>> THEN @ + 1 ELSE @]
    /\ UNCHANGED state
    /\ ImmediateFrame

ImQueueTriggered(triggered) ==
    /\ last.queued < MaxPending
    /\ stack' = immediate_queue_triggered(stack, triggered)
    /\ last' = [last EXCEPT
                  !.op = "queue_triggered",
                  !.by = IF triggered.effects # <<>> THEN Append(@, "triggered") ELSE @,
                  !.queued = IF triggered.effects # <<>> THEN @ + 1 ELSE @]
    /\ UNCHANGED state
    /\ ImmediateFrame

ImProcessed(processed) ==
    /\ stack' = processed.ir
    /\ state' = processed.st
    /\ last' = [last EXCEPT
                  !.op = "process",
                  !.by = IF processed.ir.pending = <<>>
                         THEN <<>>
                         ELSE SubSeq(@, 1, Len(processed.ir.pending)),
                  !.pre = stack.pending,
                  !.before = state,
                  !.order = processed.order,
                  !.status = processed.status]
    /\ ImmediateFrame

ImProcess ==
    ImProcessed(immediate_process(stack, state, TestContext(ImmediatePlayers)))

ImClear ==
    /\ stack.pending # <<>>
    /\ stack' = immediate_clear(stack)
    /\ last' = [last EXCEPT !.op = "clear", !.by = <<>>]
    /\ UNCHANGED state
    /\ ImmediateFrame

NextImmediate ==
    \/ \E c \in PlayerIds(ImmediatePlayers) : \E b \in ImmediateBatches :
          ImQueueAction(c, b)
    \/ \E t \in ImmediateTriggered : ImQueueTriggered(t)
    \/ ImProcess
    \/ ImClear

SpecImmediate == ImmediateInit /\ [][NextImmediate]_vars

(***************************************************************************)
(* Properties of the immediate resolver.                                   *)
(***************************************************************************)
\* the damage a batch deals to a player
batch_damage(batch, player) ==
    SumSeq([i \in 1..Len(batch) |->
              IF /\ batch[i].effect.type = "ModifyPlayerState"
                 /\ batch[i].effect.key = "life"
                 /\ player \in Range(batch[i].targets)
              THEN 0 - batch[i].effect.delta
              ELSE 0])

\* C14: process resolves every pending entry exactly once through the effect
\* resolver (each place of the queue occurs once among the entries resolved,
\* and a player's life drops by the damage of all of them together), leaves
\* the pending queue empty and returns Complete, whoever queued the entries.
C14_ProcessDrains ==
    last.op = "process" =>
        /\ stack.pending = <<>>
        /\ immediate_is_complete(stack)
        /\ last.status = Complete
        /\ Len(last.order) = Len(last.pre)
        /\ \A i \in 1..Len(last.pre) :
              Cardinality({k \in 1..Len(last.order) : last.order[k] = i}) = 1
        /\ \A p \in PlayerIds(ImmediatePlayers) :
              get_player_state(state, p, "life", 0) =
                  get_player_state(last.before, p, "life", 0)
                  - SumSeq([i \in 1..Len(last.pre) |-> batch_damage(last.pre[i].effects, p)])

\* a process call that found entries of queue_action and of queue_triggered
\* pending and took life from player 1
C14_Witness ==
    /\ last.op = "process"
    /\ Len(last.pre) = MaxPending
    /\ \E i, j \in 1..Len(last.pre) :
          /\ last.pre[i].effects[1].effect.type = "ModifyPlayerState"
          /\ last.pre[i].effects[1].targets = <<1>>
          /\ last.pre[j].effects[1].targets = <<>>
    /\ get_player_state(state, 1, "life", 0) < get_player_state(last.before, 1, "life", 0) - 1

\* C15: of two entries pending at a process call, the one queued earlier is
\* resolved before the one queued later.
C15_QueueOrder ==
    last.op = "process" =>
        \A i, j \in 1..Len(last.order) :
            i < j => last.order[i] < last.order[j]

MaxSnapshots == 3       \* clone_state calls in one behaviour
MaxMutations == 2       \* mutations of snapshots in one behaviour
SnapshotPlayers == 2    \* GameState::new(2, 42)
SnapshotSeed == 42

\* self.rng.gen_range_usize(..), gen_bool(..), shuffle(..): the stream moves on
draw_from_rng(st) == [st EXCEPT !.rng.word_pos = @ + 1]

Mutations ==
    {"set_player_state", "set_turn_state", "add_to_hand", "set_deck", "draw_card",
     "add_card", "alloc_entity", "draw_from_rng"}

mutation(op, st) ==
    CASE op = "set_player_state" -> set_player_state(st, 0, "life", 20)
      [] op = "set_turn_state" -> set_turn_state(st, "phase", 1)
      [] op = "add_to_hand" -> add_to_hand(st, 1, 3)
      [] op = "set_deck" -> set_deck(st, 1, <<3>>)
      [] op = "draw_card" -> draw_card(st, 0).st
      [] op = "add_card" -> add_card(st, CardInstance_new(st.next_entity_id, 1, 0, 0))
      [] op = "alloc_entity" -> alloc_entity(st).st
      [] op = "draw_from_rng" -> draw_from_rng(st)

\* history of SpecSnapshot: the last call, the snapshot it was made on (0:
\* the original) and the number of mutations so far
SnapshotCall(op, target, mutations) ==
    [op |-> op, target |-> target, mutations |-> mutations]

\* the original of test_game_state_clone: a deck of two, one card drawn
SnapshotOriginal ==
    draw_card(set_deck(GameState_new(SnapshotPlayers, SnapshotSeed), 0, <<1, 2>>), 0).st

SnapshotInit ==
    /\ state = SnapshotOriginal
    /\ snapshots = <<>>
    /\ buffer = IdleBuffer
    /\ worker = IdleWorker
    /\ stack = PriorityStack_new(SnapshotPlayers)
    /\ zm = ZoneManager_new
    /\ registry = TriggerRegistry_new
    /\ search = IdleSearch
    /\ last = SnapshotCall("new", 0, 0)
    /\ passers = <<>>

SnapshotFrame == UNCHANGED <<stack, zm, registry, search, passers, buffer, worker>>

\* let cloned = state.clone_state();
CloneOriginal ==
    /\ Len(snapshots) < MaxSnapshots
    /\ state' = clone_state(state).source
    /\ snapshots' = Append(snapshots, [source |-> 0, st |-> clone_state(state).clone])
    /\ last' = [last EXCEPT !.op = "clone_state", !.target = 0]
    /\ SnapshotFrame

\* let cloned = snapshot.clone_state();
CloneSnapshot(k) ==
    /\ Len(snapshots) < MaxSnapshots
    /\ snapshots' = Append([snapshots EXCEPT ![k].st = clone_state(@).source],
                           [source |-> k, st |-> clone_state(snapshots[k].st).clone])
    /\ last' = [last EXCEPT !.op = "clone_state", !.target = k]
    /\ UNCHANGED state
    /\ SnapshotFrame

\* a mutation of snapshot k; the game mutates the snapshot it took last
Mutate(k, op) ==
    /\ last.mutations < MaxMutations
    /\ op = "add_card" => ~add_to_zone_panics(snapshots[k].st.zones, snapshots[k].st.next_entity_id)
    /\ snapshots' = [snapshots EXCEPT ![k].st = mutation(op, @)]
    /\ last' = [op |-> op, target |-> k, mutations |-> last.mutations + 1]
    /\ UNCHANGED state
    /\ SnapshotFrame

NextSnapshot ==
    \/ CloneOriginal
    \/ \E k \in 1..Len(snapshots) : CloneSnapshot(k)
    \/ \E op \in Mutations : snapshots # <<>> /\ Mutate(Len(snapshots), op)

SpecSnapshot == SnapshotInit /\ [][NextSnapshot]_vars

(***************************************************************************)
(* Properties of snapshots.                                                *)
(***************************************************************************)
\* every snapshot but those listed is as it was
OtherSnapshotsKept(touched) ==
    \A j \in 1..Len(snapshots) : j \notin touched => snapshots'[j] = snapshots[j]

\* C17: no mutation of a clone changes any field of the state it was cloned
\* from, be that the original or a snapshot, nor of any other state; taking
\* a clone changes nothing of its source but the RNG fork counter, which
\* advances by one.
C17_CloneFrame ==
    [][/\ last'.op \in Mutations =>
            /\ state' = state
            /\ OtherSnapshotsKept({last'.target})
       /\ (last'.op = "clone_state" /\ last'.target = 0) =>
            /\ state' = [state EXCEPT !.rng.fork_counter = @ + 1]
            /\ OtherSnapshotsKept({})
       /\ (last'.op = "clone_state" /\ last'.target > 0) =>
            /\ state' = state
            /\ snapshots'[last'.target] =
                  [snapshots[last'.target] EXCEPT !.st.rng.fork_counter = @ + 1]
            /\ OtherSnapshotsKept({last'.target})]_vars

\* a snapshot of the original whose hands and entity counter have moved away
\* from the original's, the original having been cloned once
C17_Witness ==
    /\ state.rng.fork_counter = 1
    /\ \E k \in 1..Len(snapshots) :
          /\ snapshots[k].source = 0
          /\ snapshots[k].st.hands # state.hands
          /\ snapshots[k].st.next_entity_id # state.next_entity_id
          /\ state.hands = SnapshotOriginal.hands
          /\ state.next_entity_id = SnapshotOriginal.next_entity_id

\* the seed of the RNG stream of a snapshot's source
SourceSeed(k) ==
    IF snapshots[k].source = 0
    THEN state.rng.seed
    ELSE snapshots[snapshots[k].source].st.rng.seed

\* C18: every snapshot taken with clone_state, of the original or of a
\* snapshot, has an RNG seed that differs from the seed of its source and
\* from the seed of every other snapshot.
C18_DistinctSeeds ==
    \A k \in 1..Len(snapshots) :
        /\ snapshots[k].st.rng.seed # SourceSeed(k)
        /\ \A j \in 1..Len(snapshots) :
              j # k => snapshots[j].st.rng.seed # snapshots[k].st.rng.seed

(***************************************************************************)
(* Entity ids handed out by a game state: SpecEntities.                    *)
(***************************************************************************)
MaxAllocations == EntityModulus     \* alloc_entity calls in one behaviour

\* history of SpecEntities: the last call, the ids alloc_entity has returned
\* so far, oldest first, and whether a call has panicked
EntityCall(op, returned, panicked) ==
    [op |-> op, returned |-> returned, panicked |-> panicked]

EntitiesInit ==
    /\ \E n \in 1..MaxPlayers : state = GameState_new(n, 0)
    /\ stack = PriorityStack_new(1)
    /\ zm = ZoneManager_new
    /\ registry = TriggerRegistry_new
    /\ search = IdleSearch
    /\ last = EntityCall("new", <<>>, FALSE)
    /\ passers = <<>>
    /\ snapshots = <<>>
    /\ buffer = IdleBuffer
    /\ worker = IdleWorker

EntitiesFrame == UNCHANGED <<stack, zm, registry, search, passers, snapshots, buffer, worker>>

\* let e = state.alloc_entity(); the call returns
AllocEntity ==
    /\ ~last.panicked
    /\ Len(last.returned) < MaxAllocations
    /\ state' = alloc_entity(state).st
    /\ last' = [last EXCEPT !.op = "alloc_entity",
                            !.returned = Append(@, alloc_entity(state).ret)]
    /\ EntitiesFrame

\* the call panics on the overflow of the counter (overflow checks on)
AllocEntityPanics ==
    /\ ~last.panicked
    /\ alloc_entity_overflows(state)
    /\ last' = [last EXCEPT !.op = "alloc_entity", !.panicked = TRUE]
    /\ UNCHANGED state
    /\ EntitiesFrame

\* state.add_card(CardInstance::new(e, ..)) for the entity allocated last
AddAllocated ==
    /\ ~last.panicked
    /\ last.returned # <<>>
    /\ ~add_to_zone_panics(state.zones, last.returned[Len(last.returned)])
    /\ state' = add_card(state, CardInstance_new(last.returned[Len(last.returned)], 1, 0, 0))
    /\ last' = [last EXCEPT !.op = "add_card"]
    /\ EntitiesFrame

NextEntities ==
    \/ AllocEntity
    \/ AllocEntityPanics
    \/ AddAllocated

SpecEntities == EntitiesInit /\ [][NextEntities]_vars

\* C19: within one game state, alloc_entity never returns an id it has
\* returned before and never returns an id in the player range
\* [0, player_count).
C19_FreshEntityIds ==
    /\ \A i, j \in 1..Len(last.returned) :
          i # j => last.returned[i] # last.returned[j]
    /\ \A i \in 1..Len(last.returned) :
          ~is_player(last.returned[i], state.public.player_count)

(***************************************************************************)
(* Adding to a zone and removing again (SpecZones).                        *)
(***************************************************************************)
\* C20: when an entity that was not tracked is added with add_to_zone, at
\* any position, and then removed again, the entity-to-zone map and the
\* sequence of every ordered zone are exactly as they were before the add.
C20_AddRemoveRestores ==
    (last.op = "remove" /\ last.added # NoEntity) =>
        /\ zm.locations = last.pre.locations
        /\ zm.zone_order = last.pre.zone_order
        /\ last.added \notin DOMAIN last.pre.locations

\* an entity was added to an ordered zone that held another entity, below
\* that entity, and removed again
C20_Witness ==
    /\ last.op = "remove"
    /\ last.added # NoEntity
    /\ last.ret \in DOMAIN zm.zone_order
    /\ zm.zone_order[last.ret] # <<>>
    /\ add_to_zone(last.pre, last.added, last.ret, PosBottom).zone_order[last.ret][1] = last.added

(***************************************************************************)
(* Single effects resolved on a state that was set up first: SpecEffects.  *)
(* The set-up is that of the resolver's tests (init_ordered_zone, then     *)
(* add_card); one call of resolve_single follows.                          *)
(***************************************************************************)
\* the effects resolved
EffectsResolved ==
    {MoveCard(z, pos) : z \in Zones, pos \in {PosNone, PosTop, PosBottom, PosIndex(1)}}
    \cup {DrawCards(c, NoZone, NoZone) : c \in 0..2}
    \cup {DrawCards(1, DiscardZone, NoZone),
          ModifyCardState("damage", 3),
          SetCardState("tapped", 1),
          Batch(<<ModifyPlayerState("life", -3), ModifyPlayerState("mana", 2)>>),
          Batch(<<SetPlayerState("life", 1), DrawCards(1, NoZone, NoZone),
                  SetPlayerState("life", 2)>>),
          Batch(<<Conditional("c", ModifyPlayerState("mana", 1)),
                  ModifyPlayerState("life", -1)>>),
          Batch(<<SetCardState("tapped", 1), MoveCard(DiscardZone, PosNone),
                  ModifyPlayerState("life", 1), SetCardState("tapped", 2)>>)}

\* the targets: the players, the card entities and one entity more
EffectTargets == PlayerIds(GamePlayers) \cup CardEntities \cup {GamePlayers + MaxCards}

\* history of SpecEffects: the effect resolved last, its target and context,
\* the state before the call and the ResolveResult
EffectCall(op, effect, target, context, pre, res) ==
    [op |-> op, effect |-> effect, target |-> target, context |-> context,
     pre |-> pre, res |-> res]

EffectsInit ==
    /\ state = GameState_new(GamePlayers, 0)
    /\ stack = PriorityStack_new(GamePlayers)
    /\ zm = ZoneManager_new
    /\ registry = TriggerRegistry_new
    /\ search = IdleSearch
    /\ last = EffectCall("none", Batch(<<>>), NoEntity, TestContext(GamePlayers),
                         GameState_new(GamePlayers, 0), Success)
    /\ passers = <<>>
    /\ snapshots = <<>>
    /\ buffer = IdleBuffer
    /\ worker = IdleWorker

EffectsFrame == UNCHANGED <<stack, zm, registry, search, passers, snapshots, buffer, worker>>

\* the zones are made ordered before any card is added, as in setup_test_state
EfInitOrderedZone(zone) ==
    /\ last.op # "resolve_single"
    /\ state.cards = EmptyMap
    /\ state' = [state EXCEPT !.zones = init_ordered_zone(@, zone)]
    /\ last' = [last EXCEPT !.op = "init_ordered_zone"]
    /\ EffectsFrame

EfAddCard(entity, zone) ==
    /\ last.op # "resolve_single"
    /\ ~add_to_zone_panics(state.zones, entity)
    /\ state' = add_card(state, CardInstance_new(entity, 1, 0, zone))
    /\ last' = [last EXCEPT !.op = "add_card"]
    /\ EffectsFrame

EfResolveSingle(effect, target, context) ==
    /\ last.op # "resolve_single"
    /\ state' = resolve_single(state, effect, target, context).st
    /\ last' = EffectCall("resolve_single", effect, target, context, state,
                          resolve_single(state, effect, target, context).res)
    /\ EffectsFrame

NextEffects ==
    \/ \E z \in {DeckZone, DiscardZone} : EfInitOrderedZone(z)
    \/ \E e \in CardEntities, z \in {DeckZone, DiscardZone} : EfAddCard(e, z)
    \/ \E effect \in EffectsResolved, t \in EffectTargets, c \in StateContexts :
          EfResolveSingle(effect, t, c)

SpecEffects == EffectsInit /\ [][NextEffects]_vars

(***************************************************************************)
(* Properties of single effects.                                           *)
(***************************************************************************)
ResolvedEffect(type) == last.op = "resolve_single" /\ last.effect.type = type

\* the place in the sequence of zone dst that position pos asks for, for an
\* entity that is not counted in the others of that zone
place_asked(order, entity, pos) ==
    CASE pos.kind = "Bottom" -> 1
      [] pos.kind = "Index" -> Min(pos.i, Len(Retain(order, entity))) + 1
      [] OTHER -> Len(Retain(order, entity)) + 1

\* C21: when MoveCard{dst, pos} resolves with Success on a card, the card is
\* at position pos (Top when none is given) of zone dst, and the card
\* instance's zone field and the zone manager's location for it are dst.
C21_MoveCardPlaces ==
    (/\ ResolvedEffect("MoveCard")
     /\ last.res = Success
     /\ last.target \in DOMAIN last.pre.cards) =>
        /\ state.cards[last.target].zone = last.effect.destination
        /\ get_zone(state.zones, last.target) = last.effect.destination
        /\ is_ordered(state.zones, last.effect.destination) =>
              /\ FirstIndex(state.zones.zone_order[last.effect.destination], last.target) =
                    place_asked(state.zones.zone_order[last.effect.destination],
                                last.target, last.effect.position)

\* C22: a card effect (MoveCard, ModifyCardState or SetCardState) whose
\* target is a non-player entity without a card instance in the card map
\* resolves to Failed and changes no state.
C22_MissingCardFails ==
    (/\ last.op = "resolve_single"
     /\ last.effect.type \in {"MoveCard", "ModifyCardState", "SetCardState"}
     /\ ~is_player(last.target, last.pre.public.player_count)
     /\ last.target \notin DOMAIN last.pre.cards) =>
        /\ last.res = Failed
        /\ state = last.pre

\* the zone a DrawCards effect draws from
draw_source(effect, context, player) ==
    IF effect.from_zone = NoZone THEN context.get_deck_zone[player] ELSE effect.from_zone

\* C23: resolving DrawCards for a player whose source zone holds no cards
\* returns Failed and leaves that player's hand size and every zone
\* unchanged.
C23_EmptyDrawFails ==
    (/\ ResolvedEffect("DrawCards")
     /\ is_player(last.target, last.pre.public.player_count)
     /\ zone_size(last.pre.zones, draw_source(last.effect, last.context, last.target)) = 0) =>
        /\ last.res = Failed
        /\ state.public.hand_sizes = last.pre.public.hand_sizes
        /\ state.zones = last.pre.zones
        /\ state = last.pre

\* a draw of one card or more from an ordered, empty deck while the discard
\* pile holds a card
C23_Witness ==
    /\ ResolvedEffect("DrawCards")
    /\ last.effect.count >= 1
    /\ is_player(last.target, last.pre.public.player_count)
    /\ is_ordered(last.pre.zones, draw_source(last.effect, last.context, last.target))
    /\ zone_size(last.pre.zones, draw_source(last.effect, last.context, last.target)) = 0
    /\ zone_size(last.pre.zones, DiscardZone) > 0
    /\ last.res = Failed

\* the state after the first n sub-effects of a batch, each resolved on the
\* state the one before it left
RECURSIVE after_sub_effects(_, _, _, _, _)
after_sub_effects(st, effects, target, context, n) ==
    IF n = 0
    THEN st
    ELSE resolve_single(after_sub_effects(st, effects, target, context, n - 1),
                        effects[n], target, context).st

sub_effect_result(st, effects, target, context, n) ==
    resolve_single(after_sub_effects(st, effects, target, context, n - 1),
                   effects[n], target, context).res

\* the first sub-effect that fails, or one past the last when none does
first_failure(st, effects, target, context) ==
    Min(Len(effects) + 1,
        CHOOSE k \in 1..(Len(effects) + 1) :
            /\ k <= Len(effects) => sub_effect_result(st, effects, target, context, k) = Failed
            /\ \A j \in 1..(k - 1) : sub_effect_result(st, effects, target, context, j) # Failed)

\* C24: Batch(effects) on a target applies the sub-effects in list order and
\* stops at the first one that fails: the state is the one that sub-effect
\* left, no later sub-effect is applied, and the result is Failed; when none
\* fails all are applied and the result is Success.
C24_BatchStopsAtFailure ==
    ResolvedEffect("Batch") =>
        /\ state = after_sub_effects(last.pre, last.effect.effects, last.target, last.context,
                      Min(Len(last.effect.effects),
                          first_failure(last.pre, last.effect.effects, last.target, last.context)))
        /\ last.res = IF first_failure(last.pre, last.effect.effects, last.target, last.context)
                          <= Len(last.effect.effects)
                      THEN Failed
                      ELSE Success

\* a batch whose second sub-effect, a draw from an empty deck, failed after
\* the first had set life to 1; the third would have set it to 2
C24_Witness ==
    /\ ResolvedEffect("Batch")
    /\ Len(last.effect.effects) = 3
    /\ last.res = Failed
    /\ is_player(last.target, last.pre.public.player_count)
    /\ get_player_state(state, last.target, "life", 0) = 1
    /\ get_player_state(last.pre, last.target, "life", 0) = 0

(***************************************************************************)
(* The registry queried with find_triggers: SpecFind.  Triggers that       *)
(* differ in priority, timing, uses, condition and event types are         *)
(* registered, some are disabled, and find_triggers is called for an event *)
(* type and a timing, as in the tests of the registry.                     *)
(***************************************************************************)
MaxFound == 2

FindEvents == {FiredEvent, FiredEvent + 1}

FindTimings == {After, Before}

\* the triggers registered: one of each kind for an id
FindVariants(id) ==
    {Trigger_new(id, FiredEvent),
     trigger_with_priority(Trigger_new(id, FiredEvent), 1),
     with_timing(Trigger_new(id, FiredEvent), Before),
     with_uses(Trigger_new(id, FiredEvent), 0),
     with_uses(Trigger_new(id, FiredEvent), 1),
     with_condition(Trigger_new(id, FiredEvent), Never),
     also_on(Trigger_new(id, FiredEvent), FiredEvent + 1),
     Trigger_new(id, FiredEvent + 1)}

\* history of SpecFind: the call made last, the event type and timing asked
\* for, what find_triggers returned, and the number of registrations so far
FindCall(op, event_type, timing, found, registered) ==
    [op |-> op, event_type |-> event_type, timing |-> timing, found |-> found,
     registered |-> registered]

FindInit ==
    /\ registry = TriggerRegistry_new
    /\ stack = PriorityStack_new(TriggerPlayers)
    /\ state = GameState_new(TriggerPlayers, 0)
    /\ zm = ZoneManager_new
    /\ search = IdleSearch
    /\ last = FindCall("none", FiredEvent, After, <<>>, 0)
    /\ passers = <<>>
    /\ snapshots = <<>>
    /\ buffer = IdleBuffer
    /\ worker = IdleWorker

FindFrame == UNCHANGED <<stack, state, zm, search, passers, snapshots, buffer, worker>>

FdRegister(trigger) ==
    /\ last.registered < MaxFound
    /\ registry' = register(registry, trigger).reg
    /\ last' = FindCall("register", FiredEvent, After, <<>>, last.registered + 1)
    /\ FindFrame

FdRegisterWithId(trigger) ==
    /\ last.registered < MaxFound
    /\ registry' = register_with_id(registry, trigger).reg
    /\ last' = FindCall("register_with_id", FiredEvent, After, <<>>, last.registered + 1)
    /\ FindFrame

FdSetEnabled(id, enabled) ==
    /\ id \in DOMAIN registry.triggers
    /\ registry.triggers[id].enabled # enabled
    /\ registry' = set_enabled(registry, id, enabled)
    /\ last' = FindCall("set_enabled", FiredEvent, After, <<>>, last.registered)
    /\ FindFrame

FdFindTriggers(event_type, timing) ==
    /\ last' = FindCall("find_triggers", event_type, timing,
                        find_triggers(registry, event_type, timing), last.registered)
    /\ UNCHANGED registry
    /\ FindFrame

NextFind ==
    \/ \E trigger \in FindVariants(0) : FdRegister(trigger)
    \/ \E id \in 1..MaxFound : \E trigger \in FindVariants(id) : FdRegisterWithId(trigger)
    \/ \E id \in 0..MaxFound : FdSetEnabled(id, FALSE)
    \/ \E event_type \in FindEvents, timing \in FindTimings :
          FdFindTriggers(event_type, timing)

SpecFind == FindInit /\ [][NextFind]_vars

\* the registry with the bucket of every event type in the opposite order
reversed_buckets(r) ==
    [r EXCEPT !.by_event_type = [t \in DOMAIN r.by_event_type |-> Reverse(r.by_event_type[t])]]

\* C25: find_triggers returns the matching triggers sorted by priority
\* descending, ties broken by trigger id ascending, whatever the order in
\* which the triggers were registered (the order of the ids in the bucket).
C25_FoundSorted ==
    last.op = "find_triggers" =>
        /\ \A i, j \in 1..Len(last.found) :
              i < j =>
                 \/ registry.triggers[last.found[i].trigger_id].priority
                       > registry.triggers[last.found[j].trigger_id].priority
                 \/ /\ registry.triggers[last.found[i].trigger_id].priority
                          = registry.triggers[last.found[j].trigger_id].priority
                    /\ last.found[i].trigger_id <= last.found[j].trigger_id
        /\ last.found = find_triggers(reversed_buckets(registry), last.event_type, last.timing)

\* two triggers found, the one registered later first: by its higher
\* priority in one case, by its smaller id at equal priority in the other
C25_Witness ==
    /\ last.op = "find_triggers"
    /\ Len(last.found) = 2
    /\ last.found[1].trigger_id # last.found[2].trigger_id
    /\ registry.by_event_type[last.event_type] =
          <<last.found[2].trigger_id, last.found[1].trigger_id>>

\* the number of TriggeredEffects returned for a trigger id
found_for(found, id) == Cardinality({i \in 1..Len(found) : found[i].trigger_id = id})

\* C26: find_triggers returns exactly one TriggeredEffect for each registered
\* trigger that subscribes to the event's type, has the timing asked for,
\* can fire (enabled, and uses remaining or unlimited) and whose condition
\* holds, and none for any other trigger.
C26_OnePerMatch ==
    last.op = "find_triggers" =>
        /\ \A i \in 1..Len(last.found) : last.found[i].trigger_id \in DOMAIN registry.triggers
        /\ \A id \in DOMAIN registry.triggers :
              found_for(last.found, id) =
                 IF /\ last.event_type \in Range(registry.triggers[id].event_types)
                    /\ registry.triggers[id].timing = last.timing
                    /\ registry.triggers[id].enabled
                    /\ \/ registry.triggers[id].uses_remaining = <<>>
                       \/ registry.triggers[id].uses_remaining[1] > 0
                    /\ registry.triggers[id].condition = Always
                 THEN 1
                 ELSE 0

(***************************************************************************)
(* Properties of one pass of the search (SpecMcts).                        *)
(***************************************************************************)
\* edge e of node n (both 1-based) is on the path
on_path(path, n, e) == \E k \in 1..Len(path) : path[k] = <<n - 1, e - 1>>

\* the edge as it was before the step; an edge the step created had no
\* visits and no reward
edge_before(n, e) ==
    IF n <= Len(search.tree.nodes) /\ e <= Len(search.tree.nodes[n].edges)
    THEN search.tree.nodes[n].edges[e]
    ELSE Edge_new(NoAction, search.tree.player_count)

BackpropagatedStep ==
    search.pc = "iterating" =>
        \A n \in 1..Len(search'.tree.nodes) :
            \A e \in 1..Len(search'.tree.nodes[n].edges) :
                /\ search'.tree.nodes[n].edges[e].visits =
                      edge_before(n, e).visits + (IF on_path(search'.path, n, e) THEN 1 ELSE 0)
                /\ \A p \in PlayerIds(search.tree.player_count) :
                      search'.tree.nodes[n].edges[e].total_reward[p] =
                         edge_before(n, e).total_reward[p]
                         + (IF on_path(search'.path, n, e) THEN search'.rewards[p] ELSE 0)

\* C27: backpropagating a reward vector r over a path adds one visit and
\* r[p], never negated, to total_reward[p] of every edge of the path for
\* every player p, and changes the statistics of no other edge.
C27_BackpropagateAdds == [][BackpropagatedStep]_vars

\* a win for player 0 backed up over a path of two edges, the second at a
\* node of player 1, while another edge of the root has been visited before
C27_Witness ==
    /\ search.pc \in {"iterating", "best_action"}
    /\ Len(search.path) = 2
    /\ search.rewards = result_to_rewards(Winner(0), SearchPlayers)
    /\ get(search.tree, search.path[2][1]).to_move = 1
    /\ get(search.tree, search.path[2][1]).edges[search.path[2][2] + 1].total_reward[0] >= RewardOne
    /\ \E e \in 1..Len(root_node(search.tree).edges) :
          /\ ~on_path(search.path, 1, e)
          /\ root_node(search.tree).edges[e].visits > 0

\* C28: a node whose player to move is not the searching player is never
\* expanded with the full list of legal actions; it holds an edge only once
\* the opponent policy has sampled the edge's action at that node.  Every
\* pass that samples an action puts its edge on the path it backs up, so an
\* edge that was sampled has been visited.
C28_OpponentEdgesSampled ==
    search.pc \in {"iterating", "best_action", "done"} =>
        \A n \in 1..Len(search.tree.nodes) :
            search.tree.nodes[n].to_move # search.player =>
                \A e \in 1..Len(search.tree.nodes[n].edges) :
                    search.tree.nodes[n].edges[e].visits >= 1

\* the node at which the pass that recorded S.path ended
final_node(S) ==
    IF S.path = <<>>
    THEN S.tree.root
    ELSE get(S.tree, S.path[Len(S.path)][1]).edges[S.path[Len(S.path)][2] + 1].child

\* the state the engine sees at a node: one apply_action for each level
state_at(node) ==
    [state EXCEPT !.public.turn_number = @ + node.depth,
                  !.public.active_player = node.to_move]

\* a node that is not terminal, not at the depth limit, and without a legal
\* action for the player to move
no_legal_action(S, node) ==
    /\ is_terminal(S.engine, state_at(node)).type = "None"
    /\ ~(S.config.max_depth > 0 /\ node.depth >= S.config.max_depth)
    /\ legal_actions(S.engine, state_at(node), node.to_move) = <<>>

NoLegalActionStep ==
    search.pc = "iterating" =>
        /\ search'.pc # "panicked"
        /\ no_legal_action(search', get(search'.tree, final_node(search'))) =>
              search'.rewards = with_value(search.tree.player_count, RewardHalf)

\* C29: when a pass reaches a non-terminal node without a legal action for
\* the player to move, the search does not fail: the pass ends by backing up
\* a reward of 0.5 for every player, and when that node is the root the
\* search returns None.
C29_NoLegalActionHandled ==
    /\ [][NoLegalActionStep]_vars
    /\ [](search.pc = "done" /\ no_legal_action(search, root_node(search.tree))
            => search.result = NoAction)

\* C30: max_nodes is the most nodes a search allocates: the tree never holds
\* more than max_nodes nodes, and the iteration loop goes on only while the
\* tree holds fewer.
C30_MaxNodes ==
    /\ search.pc # "idle" => Len(search.tree.nodes) <= search.config.max_nodes
    /\ search.pc = "iterating" => Len(search.tree.nodes) < search.config.max_nodes

(***************************************************************************)
(* The experience buffer (training/trajectory.rs): SpecBuffer.             *)
(* A Trajectory is [seed, steps]; a Step keeps its move_number.  A         *)
(* TrainingSample stands for the encoded state of one step and is written  *)
(* [seed, move_number], so that the samples of a buffer whose trajectories *)
(* have different seeds can be told apart.                                 *)
(***************************************************************************)
MaxPushes == 3          \* pushes in one behaviour
MaxBatch == 3           \* batch_size of sample_batch, 0..MaxBatch

Capacities == 0..2      \* max_trajectories of the buffer
StepCounts == 0..2      \* steps of a pushed trajectory
DrawValues == 0..3      \* what the RNG yields for one draw, before reduction

Trajectory_new(seed) == [seed |-> seed, steps |-> <<>>]

\* Trajectory::push
trajectory_push(t, step) == [t EXCEPT !.steps = Append(@, step)]

\* a trajectory of n steps
RECURSIVE trajectory_of(_, _)
trajectory_of(seed, n) ==
    IF n = 0
    THEN Trajectory_new(seed)
    ELSE trajectory_push(trajectory_of(seed, n - 1), [move_number |-> n - 1])

trajectory_samples(t) ==
    [i \in 1..Len(t.steps) |-> [seed |-> t.seed, move_number |-> t.steps[i].move_number]]

ExperienceBuffer_new(max_trajectories) ==
    [trajectories |-> <<>>, max_trajectories |-> max_trajectories]

\* VecDeque::pop_front on an empty deque returns None and changes nothing
pop_front(q) == IF q = <<>> THEN q ELSE Tail(q)

\* ExperienceBuffer::push
buffer_push(b, trajectory) ==
    [b EXCEPT !.trajectories =
        Append(IF Len(@) >= b.max_trajectories THEN pop_front(@) ELSE @, trajectory)]

total_steps(b) == SumSeq([i \in 1..Len(b.trajectories) |-> Len(b.trajectories[i].steps)])

\* flat_map over the trajectories, oldest first
RECURSIVE flat_samples(_)
flat_samples(trajectories) ==
    IF trajectories = <<>>
    THEN <<>>
    ELSE trajectory_samples(Head(trajectories)) \o flat_samples(Tail(trajectories))

to_training_samples(b) == flat_samples(b.trajectories)

\* faulty variant of the swap: it copies one way only
swap_copy(indices, i, j) == [indices EXCEPT ![i + 1] = indices[j + 1]]

\* indices.swap(i, j), i and j 0-based
swap(indices, i, j) ==
    [indices EXCEPT ![i + 1] = indices[j + 1], ![j + 1] = indices[i + 1]]

\* for i in 0..limit { let j = i + rng.gen_range_usize(0..n - i); indices.swap(i, j) }
\* draws[i + 1] is what the RNG seeded with `seed` yields for turn i
RECURSIVE partial_shuffle(_, _, _, _)
partial_shuffle(indices, i, limit, draws) ==
    IF i >= limit
    THEN indices
    ELSE partial_shuffle(swap(indices, i, i + (draws[i + 1] % (Len(indices) - i))),
                         i + 1, limit, draws)

\* Iterator::take
take(s, n) == SubSeq(s, 1, Min(n, Len(s)))

\* the indices into to_training_samples that sample_batch returns
sample_indices(n, batch_size, draws) ==
    take(partial_shuffle([i \in 1..n |-> i - 1], 0, Min(batch_size, n), draws), batch_size)

\* .map(|i| all_samples[i].clone()).collect()
samples_at(all_samples, indices) ==
    [k \in 1..Len(indices) |-> all_samples[indices[k] + 1]]

sample_batch(b, batch_size, draws) ==
    IF to_training_samples(b) = <<>> \/ batch_size = 0
    THEN <<>>
    ELSE samples_at(to_training_samples(b),
                    sample_indices(Len(to_training_samples(b)), batch_size, draws))

\* history of SpecBuffer: the call, the seeds of the trajectories pushed so
\* far, the buffer before the call, the batch size and the batch returned
BufferCall(op, pushed, pre, batch_size, batch) ==
    [op |-> op, pushed |-> pushed, pre |-> pre, batch_size |-> batch_size, batch |-> batch]

BufferInit ==
    /\ \E c \in Capacities : buffer = ExperienceBuffer_new(c)
    /\ worker = IdleWorker
    /\ stack = PriorityStack_new(1)
    /\ state = GameState_new(1, 0)
    /\ zm = ZoneManager_new
    /\ registry = TriggerRegistry_new
    /\ search = IdleSearch
    /\ last = BufferCall("new", <<>>, IdleBuffer, 0, <<>>)
    /\ passers = <<>>
    /\ snapshots = <<>>

BufferFrame == UNCHANGED <<stack, state, zm, registry, search, passers, snapshots, worker>>

\* buffer.push(trajectory); the trajectory of the k-th push has seed k
BfPush(steps) ==
    /\ Len(last.pushed) < MaxPushes
    /\ buffer' = buffer_push(buffer, trajectory_of(Len(last.pushed) + 1, steps))
    /\ last' = BufferCall("push", Append(last.pushed, Len(last.pushed) + 1), buffer, 0, <<>>)
    /\ BufferFrame

BfSampleBatch(batch_size, draws) ==
    /\ last' = BufferCall("sample_batch", last.pushed, buffer, batch_size,
                          sample_batch(buffer, batch_size, draws))
    /\ UNCHANGED buffer
    /\ BufferFrame

NextBuffer ==
    \/ \E steps \in StepCounts : BfPush(steps)
    \/ \E batch_size \in 0..MaxBatch, draws \in [1..MaxBatch -> DrawValues] :
          BfSampleBatch(batch_size, draws)

SpecBuffer == BufferInit /\ [][NextBuffer]_vars

\* the seeds of the trajectories in the buffer, oldest first
buffer_seeds(b) == [i \in 1..Len(b.trajectories) |-> b.trajectories[i].seed]

\* the last n elements of s
last_of(s, n) == SubSeq(s, Len(s) - Min(n, Len(s)) + 1, Len(s))

\* C31: after any sequence of pushes the buffer holds the most recently
\* pushed trajectories, at most max_trajectories of them, in push order; a
\* push onto a full buffer evicts exactly the oldest trajectory.
C31_BoundedFifo ==
    /\ Len(buffer.trajectories) <= buffer.max_trajectories
    /\ buffer_seeds(buffer) = last_of(last.pushed, buffer.max_trajectories)
    /\ (last.op = "push" /\ Len(last.pre.trajectories) >= buffer.max_trajectories) =>
          buffer.trajectories = Tail(last.pre.trajectories) \o <<buffer.trajectories[Len(buffer.trajectories)]>>

\* the positions of to_training_samples a batch was taken from are all
\* different: the samples of a buffer are, their seeds being
different_samples(batch) ==
    \A i, j \in 1..Len(batch) : i # j => batch[i] # batch[j]

\* C32: sample_batch(n, seed) returns exactly min(n, total) samples, total
\* being the number of steps stored in the buffer, all of them stored
\* samples and none of them returned more than once.
C32_BatchWithoutRepeats ==
    last.op = "sample_batch" =>
        /\ Len(last.batch) = Min(last.batch_size, total_steps(buffer))
        /\ Range(last.batch) \subseteq Range(to_training_samples(buffer))
        /\ different_samples(last.batch)

\* a batch of three samples out of four stored, from two trajectories, not
\* in stored order
C32_Witness ==
    /\ last.op = "sample_batch"
    /\ Len(last.batch) = 3
    /\ total_steps(buffer) = 4
    /\ Len(buffer.trajectories) = 2
    /\ last.batch # SubSeq(to_training_samples(buffer), 1, 3)

(***************************************************************************)
(* Self-play (training/self_play.rs): SpecSelfPlay.  The worker record is  *)
(* [engine, config] of SelfPlayWorker with the locals of play_game:        *)
(* move_number, trajectory, and pc, which is "move" at the head of the     *)
(* loop, "searching" while search() runs and "returned" after the return.  *)
(* The MCTSSearch made for a move is the variable search.                  *)
(***************************************************************************)
MaxMoves == 2           \* max_moves of the config, 0..MaxMoves

SelfPlayIterations == {0, 2}    \* mcts_iterations of the config

SelfPlayConfig_new(mcts_iterations, temperature_threshold, max_moves) ==
    [mcts_iterations |-> mcts_iterations, temperature |-> 1,
     temperature_threshold |-> temperature_threshold, max_moves |-> max_moves]

effective_temperature(config, move_number) ==
    IF config.temperature_threshold > 0 /\ move_number >= config.temperature_threshold
    THEN 0
    ELSE config.temperature

SelfPlayWorker_new(engine, config) ==
    [engine |-> engine, config |-> config, pc |-> "idle", move_number |-> 0,
     trajectory |-> [seed |-> 0, steps |-> <<>>, outcome |-> NoReward]]

\* compute_outcome for the results the engine has: Winner, or None
compute_outcome(engine, st, player_count) ==
    IF is_terminal(engine, st).type = "Winner"
    THEN [p \in PlayerIds(player_count) |->
            IF p = is_terminal(engine, st).winner THEN RewardOne ELSE RewardZero]
    ELSE IF is_terminal(engine, st).type = "None"
    THEN with_value(player_count, RewardHalf)
    ELSE with_value(player_count, RewardOne \div player_count)

\* the end of play_game: trajectory.set_outcome(compute_outcome(..)), return
play_game_return(w, st) ==
    [w EXCEPT !.trajectory.outcome = compute_outcome(w.engine, st, st.public.player_count),
              !.pc = "returned"]

\* the engines whose random playouts end without a depth limit
SelfPlayEngines == {engine \in Engines : Terminates(engine, MCTSConfig_default)}

SelfPlayConfigs ==
    {SelfPlayConfig_new(i, t, m) : i \in SelfPlayIterations, t \in {0, 1}, m \in 0..MaxMoves}

SelfPlayInit ==
    /\ \E engine \in SelfPlayEngines, config \in SelfPlayConfigs :
          /\ worker = SelfPlayWorker_new(engine, config)
          /\ search = MCTSSearch_new(engine, MCTSConfig_default)
    /\ state = GameState_new(SearchPlayers, SearchSeed)
    /\ buffer = IdleBuffer
    /\ stack = PriorityStack_new(1)
    /\ zm = ZoneManager_new
    /\ registry = TriggerRegistry_new
    /\ last = SearchCall("new", 0)
    /\ passers = <<>>
    /\ snapshots = <<>>

SelfPlayFrame == UNCHANGED <<stack, zm, registry, last, passers, snapshots, buffer>>

\* play_game is called
PlayGame ==
    /\ worker.pc = "idle"
    /\ worker' = [worker EXCEPT !.pc = "move"]
    /\ UNCHANGED <<state, search>>
    /\ SelfPlayFrame

\* the loop is left: max_moves are played, or the state is terminal
PgReturn ==
    /\ worker.pc = "move"
    /\ \/ worker.move_number >= worker.config.max_moves
       \/ is_terminal(worker.engine, state).type # "None"
    /\ worker' = play_game_return(worker, state)
    /\ UNCHANGED <<state, search>>
    /\ SelfPlayFrame

\* MCTSSearch::new(engine, mcts_config) and the call of search() up to its loop
PgSearch ==
    /\ worker.pc = "move"
    /\ worker.move_number < worker.config.max_moves
    /\ is_terminal(worker.engine, state).type = "None"
    /\ search' = search_start(
                    MCTSSearch_new(worker.engine,
                                   with_temperature(MCTSConfig_default,
                                                    effective_temperature(worker.config,
                                                                          worker.move_number))),
                    state, state.public.active_player, worker.config.mcts_iterations)
    /\ worker' = [worker EXCEPT !.pc = "searching"]
    /\ UNCHANGED state
    /\ SelfPlayFrame

\* one turn of the iteration loop of search()
PgIteration ==
    /\ worker.pc = "searching"
    /\ search.pc = "iterating"
    /\ \E oracle \in Oracles :
          search' = iteration_end(iteration(search, clone_state(state).clone,
                                            search.player, oracle))
    /\ state' = clone_state(state).source
    /\ UNCHANGED worker
    /\ SelfPlayFrame

PgBestAction ==
    /\ worker.pc = "searching"
    /\ search.pc = "best_action"
    /\ \E action \in best_action(search) :
          search' = [search EXCEPT !.pc = "done", !.result = action]
    /\ UNCHANGED <<state, worker>>
    /\ SelfPlayFrame

\* search() returned: break on None, else record the step and apply the action
PgStep ==
    /\ worker.pc = "searching"
    /\ search.pc = "done"
    /\ IF search.result = NoAction
       THEN /\ worker' = play_game_return(worker, state)
            /\ UNCHANGED state
       ELSE /\ worker' = [worker EXCEPT
                            !.trajectory.steps =
                                Append(@, [player |-> state.public.active_player,
                                           move_number |-> worker.move_number,
                                           action |-> search.result]),
                            !.move_number = @ + 1,
                            !.pc = "move"]
            /\ state' = apply_action(worker.engine, state, state.public.active_player,
                                     search.result)
    /\ UNCHANGED search
    /\ SelfPlayFrame

NextSelfPlay ==
    \/ PlayGame
    \/ PgReturn
    \/ PgSearch
    \/ PgIteration
    \/ PgBestAction
    \/ PgStep

SpecSelfPlay == SelfPlayInit /\ [][NextSelfPlay]_vars

\* play_game is one synchronous call: it runs on while it can
SpecSelfPlayFair == SpecSelfPlay /\ WF_vars(NextSelfPlay)

\* C33: play_game always ends, after at most max_moves recorded steps, and
\* when it ends with the state still not terminal the outcome it attaches
\* is 0.5 for every player.
C33_PlayGameEnds ==
    /\ [](Len(worker.trajectory.steps) <= worker.config.max_moves)
    /\ [](worker.pc = "returned" /\ is_terminal(worker.engine, state).type = "None"
            => worker.trajectory.outcome = with_value(SearchPlayers, RewardHalf))
    /\ <>(worker.pc = "returned")

(***************************************************************************)
(* A chain that is left to resolve: SpecDrain.  A game builds a stack with *)
(* queue_action, respond and flushed triggers; from the first pass on      *)
(* nothing is queued, the player holding priority passes, and process is   *)
(* called after each pass that returned true.  last.start is the number of *)
(* entries at the first pass (last.started tells that it was made) and     *)
(* last.rounds the number of process calls made since.                     *)
(***************************************************************************)
DrainCall(op, ret, status, resolved, started, start, rounds) ==
    [op |-> op, ret |-> ret, status |-> status, resolved |-> resolved,
     started |-> started, start |-> start, rounds |-> rounds]

DrainInit ==
    /\ \E n \in 1..MaxPlayers : \E start \in PlayerIds(n) :
          /\ stack = with_priority(n, start)
          /\ state = GameState_new(n, 0)
    /\ zm = ZoneManager_new
    /\ registry = TriggerRegistry_new
    /\ search = IdleSearch
    /\ last = DrainCall("none", FALSE, Complete, NoEntry, FALSE, 0, 0)
    /\ passers = <<>>
    /\ snapshots = <<>>
    /\ buffer = IdleBuffer
    /\ worker = IdleWorker

DrainFrame == UNCHANGED <<state, zm, registry, search, passers, snapshots, buffer, worker>>

Building == ~last.started

DrQueueAction(controller, effects) ==
    /\ Building
    /\ IdsInUse(stack) < MaxStackIds
    /\ stack.entries = <<>>
    /\ effects # <<>>
    /\ stack' = queue_action(stack, effects, controller)
    /\ last' = DrainCall("queue_action", FALSE, Complete, NoEntry, FALSE, 0, 0)
    /\ DrainFrame

DrRespond(controller, effects) ==
    /\ Building
    /\ IdsInUse(stack) < MaxStackIds
    /\ stack.entries # <<>>
    /\ effects # <<>>
    /\ stack' = respond(stack, effects, controller)
    /\ last' = DrainCall("respond", FALSE, Complete, NoEntry, FALSE, 0, 0)
    /\ DrainFrame

DrQueueTriggered(triggered) ==
    /\ Building
    /\ IdsInUse(stack) < MaxStackIds
    /\ triggered.effects # <<>>
    /\ stack' = queue_triggered(stack, triggered)
    /\ last' = DrainCall("queue_triggered", FALSE, Complete, NoEntry, FALSE, 0, 0)
    /\ DrainFrame

\* the game's process call that puts the pending triggers on the stack
DrFlush ==
    /\ Building
    /\ stack.pending_triggers # <<>>
    /\ LET r == process(stack, state, TestContext(stack.player_count))
       IN  /\ stack' = r.ps
           /\ last' = DrainCall("flush", FALSE, r.status, r.resolved, FALSE, 0, 0)
    /\ DrainFrame

Drained == last.op = "process" /\ last.status = Complete

\* the player holding priority passes
DrPass ==
    /\ stack.pending_triggers = <<>>
    /\ ~(last.op = "pass" /\ last.ret)
    /\ ~Drained
    /\ LET r == pass(stack, stack.current_priority)
       IN  /\ stack' = r.ps
           /\ last' = DrainCall("pass", r.ret, Complete, NoEntry, TRUE,
                                IF Building THEN Len(stack.entries) ELSE last.start,
                                last.rounds)
    /\ DrainFrame

\* process, called after a pass that returned true
DrProcess ==
    /\ last.op = "pass"
    /\ last.ret
    /\ LET r == process(stack, state, TestContext(stack.player_count))
       IN  /\ stack' = r.ps
           /\ state' = r.st
           /\ last' = DrainCall("process", FALSE, r.status, r.resolved, TRUE,
                                last.start, last.rounds + 1)
    /\ UNCHANGED <<zm, registry, search, passers, snapshots, buffer, worker>>

NextDrain ==
    \/ \E c \in PlayerIds(stack.player_count) : \E b \in StackBatches(stack) :
          DrQueueAction(c, b)
    \/ \E c \in PlayerIds(stack.player_count) : \E b \in StackBatches(stack) :
          DrRespond(c, b)
    \/ \E t \in TriggeredEffects(stack) : DrQueueTriggered(t)
    \/ DrFlush
    \/ DrPass
    \/ DrProcess

SpecDrain == DrainInit /\ [][NextDrain]_vars

\* the game keeps calling: a call that can be made is made
SpecDrainFair == SpecDrain /\ WF_vars(NextDrain)

\* C34: starting from a stack with k entries, when nothing further is queued,
\* the player holding priority always passes and process is called after
\* each pass that returned true, every such process call resolves one entry
\* (the one on top), and after k rounds the stack is empty and process
\* returns Complete: that round is reached, and no earlier round returns it.
C34_StackDrains ==
    /\ [](last.op = "process" /\ last.start >= 1
            => /\ last.resolved # NoEntry
               /\ Len(stack.entries) = last.start - last.rounds
               /\ \A i \in 1..Len(stack.entries) : stack.entries[i].id < last.resolved.id
               /\ (last.status = Complete) <=> (last.rounds = last.start))
    /\ <>(Drained /\ stack.entries = <<>> /\ last.rounds = Max(last.start, 1))

\* the chain of MaxStackIds entries is resolved to the end
C34_Witness ==
    /\ Drained
    /\ last.start = MaxStackIds
    /\ last.rounds = MaxStackIds
    /\ stack.player_count > 1
    /\ stack.entries = <<>>

(***************************************************************************)
(* Further properties of the priority stack (SpecStack).                   *)
(***************************************************************************)
\* what the last call did to the entries: clear emptied the stack, a process
\* call that resolved took the top entry off, and every other call kept the
\* entries as they were, below the ones it pushed, which carry the last ids
\* handed out
EntriesStep ==
    IF last.op = "clear"
    THEN stack.entries = <<>>
    ELSE IF last.op = "process" /\ last.resolved # NoEntry
    THEN /\ last.entries # <<>>
         /\ last.resolved = last.entries[Len(last.entries)]
         /\ stack.entries = VecInit(last.entries)
    ELSE /\ Len(stack.entries) >= Len(last.entries)
         /\ SubSeq(stack.entries, 1, Len(last.entries)) = last.entries
         /\ \A i \in (Len(last.entries) + 1)..Len(stack.entries) :
               stack.entries[i].id = stack.next_id - 1 - (Len(stack.entries) - i)

\* the entries on the stack are different entries, in the order of their ids,
\* and their ids were handed out
EntriesDistinct ==
    /\ \A i \in 1..Len(stack.entries) : stack.entries[i].id < stack.next_id
    /\ \A i \in 1..(Len(stack.entries) - 1) : stack.entries[i].id < stack.entries[i + 1].id

C36_PassesBounded == stack.consecutive_passes <= stack.player_count

(***************************************************************************)
(* Further properties of the zone manager (SpecZones).                     *)
(***************************************************************************)
occurrences(order, entity) == Cardinality({i \in 1..Len(order) : order[i] = entity})

\* C37: for every ordered zone, its sequence holds exactly the entities whose
\* recorded location is that zone, each of them once, so that zone_size,
\* top_card and pop_top agree with the entity-to-zone map, after any sequence
\* of zone-manager operations.
C37_OrderMatchesLocations ==
    \A zone \in DOMAIN zm.zone_order :
        /\ Range(zm.zone_order[zone]) = cards_in_zone(zm, zone)
        /\ \A e \in cards_in_zone(zm, zone) : occurrences(zm.zone_order[zone], e) = 1
        /\ zone_size(zm, zone) = Cardinality(cards_in_zone(zm, zone))
        /\ top_card(zm, zone) # NoEntity => get_zone(zm, top_card(zm, zone)) = zone
        /\ pop_top(zm, zone).ret = NoEntity <=> cards_in_zone(zm, zone) = {}

(***************************************************************************)
(* Further properties of the trigger registry (SpecRegistry).              *)
(***************************************************************************)
subscribes(r, id, event_type) ==
    id \in DOMAIN r.triggers /\ event_type \in Range(r.triggers[id].event_types)

IndexConsistent ==
    /\ \A t \in DOMAIN registry.by_event_type :
          /\ \A id \in Range(registry.by_event_type[t]) : subscribes(registry, id, t)
          /\ \A i, j \in 1..Len(registry.by_event_type[t]) :
                i # j => registry.by_event_type[t][i] # registry.by_event_type[t][j]
    /\ \A id \in DOMAIN registry.triggers :
          \A t \in Range(registry.triggers[id].event_types) :
              /\ t \in DOMAIN registry.by_event_type
              /\ id \in Range(registry.by_event_type[t])

RegisterKeeps ==
    last'.op \in {"register", "register_with_id"} =>
        \A id \in DOMAIN registry.triggers :
            /\ id \in DOMAIN registry'.triggers
            /\ registry'.triggers[id] = registry.triggers[id]

\* C38: the event-type index stays consistent with the trigger map: an id is
\* listed in the bucket of event type t exactly when a registered trigger with
\* that id subscribes to t, it is listed there only once, and registering a
\* trigger never overwrites a different trigger that is still registered.
C38_IndexConsistent == []IndexConsistent /\ [][RegisterKeeps]_vars

(***************************************************************************)
(* Further properties of the search (SpecMcts).                            *)
(***************************************************************************)
edge_visits(node) == SumSeq([i \in 1..Len(node.edges) |-> node.edges[i].visits])

\* C39: at every node of the search tree, the root included, the visit count
\* of the node equals the sum of the visit counts of its outgoing edges, so
\* that the N the selection policy reads at a node is the total of the n(a)
\* of its edges.
C39_VisitsAddUp ==
    search.pc \in {"iterating", "best_action", "done"} =>
        \A n \in 1..Len(search.tree.nodes) :
            search.tree.nodes[n].visits = edge_visits(search.tree.nodes[n])

\* C40: the search works on snapshots only: when it returns, the game state
\* of the caller is what it was at the call (players, zones, hands, decks,
\* cards, turn data, the seed and draw position of the RNG), except for the
\* fork counter of its RNG, which has advanced once per iteration run.
C40_CallerStateKept ==
    search.pc = "done" =>
        state = [last.caller EXCEPT !.rng.fork_counter = @ + search.stats.iterations]

\* a second search has returned after two iterations that grew the tree
C40_Witness ==
    /\ search.pc = "done"
    /\ search.stats.iterations = 2
    /\ last.caller.rng.fork_counter = 1
    /\ state.rng.fork_counter = 3
    /\ Len(search.tree.nodes) > 2
    /\ search.result # NoAction

=============================================================================
